---- MODULE Spec2Model ----
(***************************************************************************)
(* A model of autodbconv's LDF parser (src/src/parsers/ldf.rs).            *)
(*                                                                         *)
(* parse_ldf is a loop over ParserState; every arm of its match reads      *)
(* tokens from the Tokenizer and either updates the Database / LDFData it  *)
(* is building or returns an Error.  The model follows the arms step by    *)
(* step: `state' is the ParserState, `pc' the position inside the arm      *)
(* ("start": before the arm's introductory check_equal, "loop": at the     *)
(* head of the arm's while loop, "inner": at the head of the nested while  *)
(* loop).  What the tokenizer returns is the input, so every step draws it *)
(* from a small set: a token, or one of the tokenizer's two errors.        *)
(* Integer literals are sequences of characters and are converted by       *)
(* parse_integer and then narrowed as the `as u16' / `as u32' casts do.    *)
(* A returned Err drops db and data, as the Rust function does.            *)
(***************************************************************************)
EXTENDS Integers, Sequences, FiniteSets, TLC

VARIABLES
    state,            \* parse_ldf: let mut state: ParserState
    pc,               \* position inside the current match arm
    peeked,           \* token last returned by tokens.peek() and not yet consumed
    result,           \* "running", "Ok" or the Error returned
    bitrate,          \* data.bitrate, in thousandths of a bit per second
    commander,        \* data.commander
    responders,       \* key set of data.responders
    subscribed_signals, \* data.responders: name -> subscribed_signals of the responder
    signals,          \* db.signals: name -> Signal (init_value left out)
    messages,         \* db.messages: name -> [sender, id, byte_width, signals, mux_signals]
    sporadic_frames,  \* data.sporadic_frames: name -> list of frame names
    event_frames,     \* data.event_frames: name -> [resolver, id, frames]
    extra,            \* db.extra: "NCF" (default) or "LDF"
    schedule_tables,  \* data.schedule_tables: name -> list of <<command, delay>>
    encodings,        \* parse_ldf: let mut encodings: name -> list of Encoding
    cur,              \* locals of the frame / group being read (name, frames, ...)
    item,             \* the input item consumed by the last step
    tokErr,           \* the Error the tokenizer has returned, "none" if it has not
    matched,          \* number of items of ReferenceInput read so far, -1 for another input
    items,            \* number of loop items read so far
    limit,            \* number of loop items the input holds at most
    data,             \* Tokenizer.data: the text, as its characters
    index,            \* Tokenizer.index: number of characters consumed
    last              \* the last call of next() / peek(): cursor before it, result

vars == <<state, pc, peeked, result, bitrate, commander, responders, subscribed_signals,
          signals, messages,
          sporadic_frames, event_frames, schedule_tables, extra, encodings, cur, item,
          tokErr, matched, items, limit, data, index, last>>

\* The fields of the Tokenizer when it is run on a text of its own.
tokVars == <<data, index, last>>

----------------------------------------------------------------------------
(* Bounds of the model *)

\* Number of loop items (declarations, entries, groups, commands) of one input,
\* when the items may be of every section.
MaxItems == 3
\* The same, for the inputs whose items are signals and frames only.
MaxFrameItems == 4
\* The same, for the inputs whose items are frames and frame groups only.
MaxGroupItems == 5
\* The same, for the inputs whose items are encoding blocks and their entries.
MaxEncodingItems == 5
\* The same, for the inputs whose items are signals with subscribers and frames.
MaxSignalItems == 3

----------------------------------------------------------------------------
(* Program constants *)

MAX_SIGNAL_WIDTH == 64
BIT_START_INVALID == 65535
U16 == 65536

----------------------------------------------------------------------------
(* The input alphabets *)

NodeNames == {"ECU1", "ECU2"}
CommanderNames == {"ECU1"}
ResponderSets == {{"ECU2"}, {"ECU1", "ECU2"}}
\* The second name of each is one that the diagnostic templates use.
SigNames == {"Sig1", "MasterReqB0"}
FrameNames == {"Frame1", "MasterReq"}
GroupNames == {"Frame1", "Grp1"}

\* Integer literal tokens, as the characters of the token.
WidthLits == { <<"6","4">>, <<"6","5">>, <<"0","x","4","1">>, <<"6","5","5","3","6">>,
               <<"6","4","x">> }
OffsetLits == { <<"0">>, <<"8">>, <<"6","5","5","3","5">>, <<"0","x","f","f","f","f">>,
                <<"0","x">> }
ByteWidthLits == { <<"1">>, <<"2">> }
IdLits == { <<"1">> }
\* Real-or-integer literal tokens.
SpeedLits == { <<"1","9",".","2">>, <<"1","9",".","2","0">>, <<"1","9",".","2",".","1">>,
               <<"0","x">> }

\* The publisher token and the subscriber tokens of a signal declaration.
PublisherNames == {"ECU1", "Nobody"}
SubscriberLists == { <<>>, <<"ECU2">>, <<"ECU1", "ECU2">>, <<"ECU2", "ECU2">> }
\* The widths of the declarations that are read with their subscribers.
SubscribedWidthLits == { <<"8">>, <<"0">>, <<"6","5">> }

NoPeek == "?"
NoCur == [kind |-> "none"]
NoItem == [kind |-> "none"]
EmptyMap == [x \in {} |-> 0]

\* pub enum Error; IO carries a message and is not returned by the parser.
Error == {"IO", "ExpectedComment", "ExpectedToken", "UnexpectedToken", "IncorrectToken",
          "NumberParse", "SignalTooWide", "UnknownNode", "UnknownFrame", "UnknownSignal",
          "DuplicateSignal", "DuplicateFrame", "NotUnconditionalFrame",
          "SporadicFrameHasResponder", "EventFrameDifferentLength", "NotImplemented"}

LexErrs == {"ExpectedToken", "ExpectedComment"}

\* The tokens a look-ahead is given: the introductory literal of every section,
\* and "other" for every token that is none of them.
IntroToks == {"Channel_name", "Nodes", "composite", "Signals", "Diagnostic_signals",
              "Frames", "Sporadic_frames", "Event_triggered_frames",
              "Diagnostic_frames", "Node_attributes", "Schedule_tables",
              "Signal_groups", "Signal_encoding_types", "Signal_representation"}
PeekToks == IntroToks \cup {"other"}

StateOrder == << "Header", "ProtocolVersion", "LanguageVersion", "Speed",
                 "ChannelName", "Node", "NodeComposition", "Signal",
                 "DiagnosticSignal", "Frame", "SporadicFrame",
                 "EventTriggeredFrame", "DiagnosticFrame", "NodeAttributes",
                 "ScheduleTable", "SignalGroups", "SignalEncodingTypes",
                 "SignalRepresentation", "Done" >>
ParserStates == { StateOrder[i] : i \in 1..Len(StateOrder) }

\* First literal of the check_equal that opens each arm.
Intro(s) ==
    CASE s = "Header"              -> "LIN_description_file"
      [] s = "ProtocolVersion"     -> "LIN_protocol_version"
      [] s = "LanguageVersion"     -> "LIN_language_version"
      [] s = "Speed"               -> "LIN_speed"
      [] s = "ChannelName"         -> "Channel_name"
      [] s = "Node"                -> "Nodes"
      [] s = "NodeComposition"     -> "composite"
      [] s = "Signal"              -> "Signals"
      [] s = "DiagnosticSignal"    -> "Diagnostic_signals"
      [] s = "Frame"               -> "Frames"
      [] s = "SporadicFrame"       -> "Sporadic_frames"
      [] s = "EventTriggeredFrame" -> "Event_triggered_frames"
      [] s = "DiagnosticFrame"     -> "Diagnostic_frames"
      [] s = "NodeAttributes"      -> "Node_attributes"
      [] s = "ScheduleTable"       -> "Schedule_tables"
      [] s = "SignalGroups"        -> "Signal_groups"
      [] s = "SignalEncodingTypes" -> "Signal_encoding_types"
      [] OTHER                     -> "none"

----------------------------------------------------------------------------
(* Numeric Literal Reader *)

DecDigits == <<"0","1","2","3","4","5","6","7","8","9">>
HexDigits == DecDigits \o <<"a","b","c","d","e","f">>
NumErr == -1

DigitVal(c, digits) ==
    IF \E i \in 1..Len(digits) : digits[i] = c
    THEN (CHOOSE i \in 1..Len(digits) : digits[i] = c) - 1
    ELSE NumErr

RECURSIVE from_str_radix(_, _, _)
\* u64::from_str_radix on the characters s, most significant first; acc is the
\* value of the characters already read.
from_str_radix(s, digits, acc) ==
    IF s = <<>> THEN acc
    ELSE IF DigitVal(Head(s), digits) = NumErr THEN NumErr
    ELSE from_str_radix(Tail(s), digits, acc * Len(digits) + DigitVal(Head(s), digits))

\* parse_integer: "0x" prefix selects base 16, an empty digit string is an error.
parse_integer(s) ==
    IF Len(s) >= 2 /\ s[1] = "0" /\ s[2] = "x"
    THEN IF Len(s) = 2 THEN NumErr ELSE from_str_radix(SubSeq(s, 3, Len(s)), HexDigits, 0)
    ELSE IF s = <<>> THEN NumErr ELSE from_str_radix(s, DecDigits, 0)

\* The `as u16' cast of a parsed u64.
AsU16(v) == v % U16

\* An f64 is held in fixed point, as its number of thousandths.
Thousand == 10 * 10 * 10

\* parse_real_or_integer on the literals `digits', `digits.digits' and `0xhex':
\* a "0x" prefix selects u64::from_str_radix, every other token goes to
\* f64::from_str, which refuses a second point and a token without a digit.
parse_real_or_integer(s) ==
    IF Len(s) >= 2 /\ s[1] = "0" /\ s[2] = "x"
    THEN LET i == IF Len(s) = 2 THEN NumErr
                  ELSE from_str_radix(SubSeq(s, 3, Len(s)), HexDigits, 0)
         IN IF i = NumErr THEN NumErr ELSE i * Thousand
    ELSE LET points == {i \in 1..Len(s) : s[i] = "."}
             p      == IF points = {} THEN Len(s) + 1 ELSE CHOOSE i \in points : TRUE
             whole  == SubSeq(s, 1, p - 1)
             frac   == SubSeq(s, p + 1, Len(s))
             wv     == from_str_radix(whole, DecDigits, 0)
             fv     == from_str_radix(frac, DecDigits, 0)
         IN IF Cardinality(points) > 1 \/ (whole = <<>> /\ frac = <<>>) THEN NumErr
            ELSE IF wv = NumErr \/ fv = NumErr THEN NumErr
            ELSE IF Len(frac) <= 3
                 THEN wv * Thousand + fv * 10 ^ (3 - Len(frac))
                 ELSE wv * Thousand + fv \div 10 ^ (Len(frac) - 3)

----------------------------------------------------------------------------
(* Tokenizer *)

\* Length of the texts the tokenizer is run on.
MaxTextLen == 5

Whitespace == {" ", "\n"}
Delimiters == {",", ";", ":", "=", "{", "}", "/"}
Quote == "\""

\* The characters of the texts: a character of every class the tokenizer tells
\* apart ("a" and "*" are ordinary characters of identifiers and numbers).
CoreChars == {" ", "\n", "/", "*", Quote, ";", "a"}
Chars == CoreChars \cup Delimiters

\* c.is_whitespace()
IsWhitespace(c) == c \in Whitespace

\* let is_delimiter = |c: char| [',', ';', ':', '=', '{', '}', '/'].contains(&c)
is_delimiter(c) == c \in Delimiters

RECURSIVE SkipPhase(_, _, _, _)
\* The first loop of Tokenizer::parse from the 1-based position i, in state st
\* with c_prev the character before: the TokenizerState the loop ends in.
SkipPhase(text, i, st, c_prev) ==
    IF i > Len(text) THEN [state |-> st, at |-> 0]
    ELSE LET c == text[i] IN
         CASE st = "Search" ->
                 IF c = "/" THEN SkipPhase(text, i + 1, "ExpectComment", c)
                 ELSE IF ~IsWhitespace(c) THEN [state |-> "Found", at |-> i]
                 ELSE SkipPhase(text, i + 1, "Search", c)
           [] st = "ExpectComment" ->
                 IF c = "*" THEN SkipPhase(text, i + 1, "BlockComment", c)
                 ELSE IF c = "/" THEN SkipPhase(text, i + 1, "LineComment", c)
                 ELSE [state |-> "ExpectedComment", at |-> 0]
           [] st = "BlockComment" ->
                 IF c_prev = "*" /\ c = "/"
                 THEN SkipPhase(text, i + 1, "Search", c)
                 ELSE SkipPhase(text, i + 1, "BlockComment", c)
           [] st = "LineComment" ->
                 IF c = "\n"
                 THEN SkipPhase(text, i + 1, "Search", c)
                 ELSE SkipPhase(text, i + 1, "LineComment", c)

\* Mutant: CharString(false) from the start, the opening quote read as the
\* closing one.
TokenStart_NoStartFlag(c_start) ==
    IF c_start = Quote THEN "CharString"
    ELSE IF is_delimiter(c_start) THEN "Skip"
    ELSE "Search"

\* Mutant: a delimiter starts the second loop in Search, as an identifier does.
TokenStart_NoSkip(c_start) == IF c_start = Quote THEN "CharStringStart" ELSE "Search"

\* The TokenizerState the second loop starts in, from the token's first character.
TokenStart(c_start) ==
    IF c_start = Quote THEN "CharStringStart"
    ELSE IF is_delimiter(c_start) THEN "Skip"
    ELSE "Search"

RECURSIVE TokenPhase(_, _, _)
\* The second loop of Tokenizer::parse from the 1-based position i in state st:
\* the position of the first character after the token (Len(text) + 1 when the
\* loop runs out of characters, new_index = self.data.len()).
TokenPhase(text, i, st) ==
    IF i > Len(text) THEN Len(text) + 1
    ELSE LET c == text[i] IN
         CASE st = "Search" ->
                 IF is_delimiter(c) \/ IsWhitespace(c) THEN i
                 ELSE TokenPhase(text, i + 1, "Search")
           [] st = "CharStringStart" -> TokenPhase(text, i + 1, "CharString")
           [] st = "CharString" ->
                 IF c = Quote THEN TokenPhase(text, i + 1, "Stop")
                 ELSE TokenPhase(text, i + 1, "CharString")
           [] st = "Skip" -> TokenPhase(text, i + 1, "Stop")
           [] st = "Stop" -> i

\* What Tokenizer::parse returns with the cursor at idx: an Error, or the token
\* text[start+1 .. end] (start and end are byte offsets, as in the code).
parse(text, idx) ==
    LET s == SkipPhase(text, idx + 1, "Search", " ") IN
    IF s.state = "Found"
    THEN LET e == TokenPhase(text, s.at, TokenStart(text[s.at]))
         IN [res |-> "token", start |-> s.at - 1, end |-> e - 1,
             token |-> SubSeq(text, s.at, e - 1)]
    ELSE IF s.state = "ExpectedComment"
    THEN [res |-> "ExpectedComment", start |-> 0, end |-> 0, token |-> <<>>]
    ELSE [res |-> "ExpectedToken", start |-> 0, end |-> 0, token |-> <<>>]

\* Mutant: the cursor is moved whether or not update is set.
NewIndex_Always(update, r, idx) == IF r.res = "token" THEN r.end ELSE idx

\* Mutant: the cursor stays where it is.
NewIndex_Stay(update, r, idx) == idx

\* if update { self.index = new_index }, reached only when a token is returned.
NewIndex(update, r, idx) == IF update /\ r.res = "token" THEN r.end ELSE idx

NoResult == [res |-> "none", start |-> 0, end |-> 0, token |-> <<>>]
NoCall == [op |-> "none", from |-> 0, r |-> NoResult]

\* The texts: every text of at most MaxTextLen characters of CoreChars, and every
\* text two characters shorter of all the characters.
TextsOver(chars, n) == UNION { [1..k -> chars] : k \in 0..n }
Texts == TextsOver(CoreChars, MaxTextLen) \cup TextsOver(Chars, MaxTextLen - 2)

----------------------------------------------------------------------------
(* The reference input *)

\* The items of the input
\*   LIN_description_file; LIN_protocol_version = "2.2"; LIN_language_version = "2.2";
\*   LIN_speed = 19.2 kbps; Nodes { Master: ECU1, 10 ms, 0.1 ms; Slaves: ECU2; }
\*   Signals { Sig1: 8, 0, ECU1, ECU2; } Frames { Frame1: 1, ECU1, 1 { Sig1, 0; } }
\*   Node_attributes { } Schedule_tables { }
\* in the order in which parse_ldf reads them.
ReferenceInput ==
    << [kind |-> "header"],
       [kind |-> "version", kw |-> "LIN_protocol_version", eq |-> "=",
        value |-> "\"2.2\"", semi |-> ";"],
       [kind |-> "version", kw |-> "LIN_language_version", eq |-> "=",
        value |-> "\"2.2\"", semi |-> ";"],
       [kind |-> "speed", value |-> 19200],
       [kind |-> "nodes", commander |-> "ECU1", responders |-> {"ECU2"}],
       [kind |-> "open"],
       [kind |-> "signal", name |-> "Sig1", width |-> 8, publisher |-> "ECU1",
        subscribers |-> <<"ECU2">>],
       [kind |-> "close"],
       [kind |-> "open"],
       [kind |-> "frame", name |-> "Frame1", id |-> 1, sender |-> "ECU1", byte_width |-> 1],
       [kind |-> "frame_signal", name |-> "Sig1", offset |-> 0],
       [kind |-> "close"],
       [kind |-> "close"],
       [kind |-> "open"],
       [kind |-> "close"],
       [kind |-> "open"],
       [kind |-> "lookahead", token |-> "ExpectedToken"],
       [kind |-> "return"] >>

\* The count of matched items once the item it has been read.
Follow(m, it) ==
    IF m >= 0 /\ m < Len(ReferenceInput) /\ it = ReferenceInput[m + 1] THEN m + 1 ELSE -1

----------------------------------------------------------------------------
(* Helpers *)

Insert(m, k, v) == [x \in DOMAIN m \cup {k} |-> IF x = k THEN v ELSE m[x]]

Contains(seq, x) == \E i \in 1..Len(seq) : seq[i] = x

Running == result = "running"

\* `return Err(e)' (also through `?'): db, data and every local are dropped.
Fail(e, it) ==
    /\ result' = e
    /\ item' = it
    /\ matched' = Follow(matched, it)
    /\ tokErr' = IF e \in LexErrs THEN e ELSE tokErr
    /\ peeked' = NoPeek
    /\ bitrate' = 0
    /\ commander' = ""
    /\ responders' = {}
    /\ subscribed_signals' = EmptyMap
    /\ signals' = EmptyMap
    /\ messages' = EmptyMap
    /\ sporadic_frames' = EmptyMap
    /\ event_frames' = EmptyMap
    /\ schedule_tables' = EmptyMap
    /\ encodings' = EmptyMap
    /\ cur' = NoCur
    /\ UNCHANGED <<state, pc, extra, items, limit, tokVars>>

dataVars == <<bitrate, commander, responders, subscribed_signals, signals, messages, sporadic_frames,
              event_frames, schedule_tables, encodings, cur>>

\* Control moves to (s, p) with pk the token peeked, if any; it is the item read.
Goto(s, p, pk, it) ==
    /\ state' = s
    /\ pc' = p
    /\ peeked' = pk
    /\ item' = it
    /\ matched' = Follow(matched, it)
    /\ UNCHANGED <<result, extra, limit, tokVars>>

\* The first token of an arm is the one the previous arm peeked, when it peeked.
AtStart(s) == Running /\ state = s /\ pc = "start" /\ peeked \in {NoPeek, Intro(s)}

\* `match tokens.peek()?': a tokenizer error is returned, a token selects the arm.
LookAhead(la, next, it) ==
    IF la \in LexErrs
    THEN Fail(la, it)
    ELSE /\ Goto(next, "start", la, it)
         /\ UNCHANGED <<dataVars, tokErr, items>>

\* `if let Ok(tok) = tokens.peek() { match tok {...} } else { state = Done }':
\* next is a ParserState, or the Error returned by the catch-all arm.
LookAheadOrDone(la, next, it) ==
    IF la \in LexErrs
    THEN /\ Goto("Done", "start", NoPeek, it)
         /\ tokErr' = la
         /\ UNCHANGED <<dataVars, items>>
    ELSE IF next \in ParserStates
         THEN /\ Goto(next, "start", la, it)
              /\ UNCHANGED <<dataVars, tokErr, items>>
         ELSE Fail(next, it)

----------------------------------------------------------------------------
(* Look-ahead: the arm chosen from the peeked token *)

AfterSpeed(tok) == IF tok = "Channel_name" THEN "ChannelName" ELSE "Node"

AfterNode(tok) == IF tok = "composite" THEN "NodeComposition" ELSE "Signal"

AfterSignal(tok) == IF tok = "Diagnostic_signals" THEN "DiagnosticSignal" ELSE "Frame"

AfterFrame(tok) ==
    CASE tok = "Sporadic_frames"        -> "SporadicFrame"
      [] tok = "Event_triggered_frames" -> "EventTriggeredFrame"
      [] tok = "Diagnostic_frames"      -> "DiagnosticFrame"
      [] OTHER                          -> "NodeAttributes"

\* Mutant: the match of the Frame arm copied into the Sporadic_frames arm.
AfterSporadicFrame_AsAfterFrame(tok) == AfterFrame(tok)

AfterSporadicFrame(tok) ==
    CASE tok = "Event_triggered_frames" -> "EventTriggeredFrame"
      [] tok = "Diagnostic_frames"      -> "DiagnosticFrame"
      [] OTHER                          -> "NodeAttributes"

AfterEventTriggeredFrame(tok) ==
    IF tok = "Diagnostic_frames" THEN "DiagnosticFrame" ELSE "NodeAttributes"

AfterScheduleTable(tok) ==
    CASE tok = "Signal_groups"         -> "SignalGroups"
      [] tok = "Signal_encoding_types" -> "SignalEncodingTypes"
      [] tok = "Signal_representation" -> "SignalRepresentation"
      [] OTHER                         -> "UnexpectedToken"

AfterSignalGroups(tok) ==
    CASE tok = "Signal_encoding_types" -> "SignalEncodingTypes"
      [] tok = "Signal_representation" -> "SignalRepresentation"
      [] OTHER                         -> "UnexpectedToken"

AfterSignalEncodingTypes(tok) ==
    IF tok = "Signal_representation" THEN "SignalRepresentation" ELSE "UnexpectedToken"

----------------------------------------------------------------------------
(* Token-level failures common to every arm *)

\* Arms and positions whose next step converts a numeral other than the ones the
\* model reads as literals (speed, time base, jitter, init value, ids, NADs, ...).
ParsesNumber ==
    \/ state = "Node"
    \/ state = "Signal" /\ pc = "loop"
    \/ state = "EventTriggeredFrame" /\ pc = "loop"
    \/ state = "NodeAttributes" /\ pc = "loop"
    \/ state = "ScheduleTable" /\ pc = "inner"
    \/ state = "SignalEncodingTypes" /\ pc = "inner"

SyntaxErrs ==
    LexErrs \cup {"IncorrectToken"} \cup (IF ParsesNumber THEN {"NumberParse"} ELSE {})

\* tokens.next()? / tokens.peek()? returns the tokenizer's error, check_equal
\* meets a token other than the expected one, or a numeral does not parse, before
\* the step's semantic checks are reached.
SyntaxFail ==
    /\ Running
    /\ state \notin {"SignalRepresentation", "Done"}
    /\ pc = "start" => peeked \in {NoPeek, Intro(state)}
    /\ \E e \in SyntaxErrs : Fail(e, [kind |-> "syntax"])

\* check_equal on the arm's first literal when the token that the previous arm
\* peeked (and that selected this arm by the catch-all branch) is another one.
IntroMismatch ==
    /\ Running
    /\ state \notin {"SignalRepresentation", "Done"}
    /\ pc = "start"
    /\ peeked \notin {NoPeek, Intro(state)}
    /\ Fail("IncorrectToken", [kind |-> "intro", token |-> peeked])

----------------------------------------------------------------------------
(* Header .. Node *)

Header ==
    /\ AtStart("Header")
    /\ Goto("ProtocolVersion", "start", NoPeek, [kind |-> "header"])
    /\ UNCHANGED <<dataVars, tokErr, items>>

VersionToks == {"\"2.2\"", "\"2.1\"", "other"}

\* Mutant: only the first two tokens are compared.
check_equal_Opening(actual, expected) ==
    IF \E i \in 1..Len(expected) : i <= 2 /\ actual[i] # expected[i]
    THEN "IncorrectToken"
    ELSE "ok"

\* Tokenizer::check_equal on tokens already read: the first token that differs
\* from the expected one is the IncorrectToken.
check_equal(actual, expected) ==
    IF \E i \in 1..Len(expected) : actual[i] # expected[i]
    THEN "IncorrectToken"
    ELSE "ok"

\* Mutant: a version value other than LIN_VERSION_STR is refused.
VersionCheck_Enforced(v) == IF v = "\"2.2\"" THEN "ok" ELSE "IncorrectToken"

\* if tokens.next()? != LIN_VERSION_STR { warn!(..) }
VersionCheck(v) == "ok"

\* The arm of a version statement `keyword = v ;' on the tokens kw eq v semi.
VersionStatement(keyword, kw, eq, v, semi) ==
    IF check_equal(<<kw, eq>>, <<keyword, "=">>) # "ok" THEN "IncorrectToken"
    ELSE IF VersionCheck(v) # "ok" THEN VersionCheck(v)
    ELSE check_equal(<<semi>>, <<";">>)

ProtocolVersion ==
    /\ AtStart("ProtocolVersion")
    /\ \E kw \in {"LIN_protocol_version", "other"}, eq \in {"=", "other"},
          v \in VersionToks, semi \in {";", "other"} :
         LET it == [kind |-> "version", kw |-> kw, eq |-> eq, value |-> v, semi |-> semi]
             ck == VersionStatement("LIN_protocol_version", kw, eq, v, semi)
         IN IF ck # "ok" THEN Fail(ck, it)
            ELSE /\ Goto("LanguageVersion", "start", NoPeek, it)
                 /\ UNCHANGED <<dataVars, tokErr, items>>

LanguageVersion ==
    /\ AtStart("LanguageVersion")
    /\ \E kw \in {"LIN_language_version", "other"}, eq \in {"=", "other"},
          v \in VersionToks, semi \in {";", "other"} :
         LET it == [kind |-> "version", kw |-> kw, eq |-> eq, value |-> v, semi |-> semi]
             ck == VersionStatement("LIN_language_version", kw, eq, v, semi)
         IN IF ck # "ok" THEN Fail(ck, it)
            ELSE /\ Goto("Speed", "start", NoPeek, it)
                 /\ UNCHANGED <<dataVars, tokErr, items>>

\* Mutant: the speed kept in kbps.
ScaleKbps_Unscaled(v) == v

\* data.bitrate *= 1000.0
ScaleKbps(v) == v * 1000

Speed ==
    /\ AtStart("Speed")
    /\ \E lit \in SpeedLits, la \in PeekToks \cup LexErrs :
         LET v  == parse_real_or_integer(lit)
             it == [kind |-> "speed", value |-> v]
         IN IF v = NumErr THEN Fail("NumberParse", it)
            ELSE IF la \in LexErrs THEN Fail(la, it)
            ELSE /\ Goto(AfterSpeed(la), "start", la, it)
                 /\ bitrate' = ScaleKbps(v)
                 /\ UNCHANGED <<commander, responders, subscribed_signals, signals,
                                messages, sporadic_frames, event_frames, schedule_tables,
                                encodings, cur, tokErr, items>>

ChannelName ==
    /\ AtStart("ChannelName")
    /\ Goto("Node", "start", NoPeek, [kind |-> "channel"])
    /\ UNCHANGED <<dataVars, tokErr, items>>

Node ==
    /\ AtStart("Node")
    /\ \E c \in CommanderNames, rs \in ResponderSets, la \in PeekToks \cup LexErrs :
          IF la \in LexErrs
          THEN Fail(la, [kind |-> "nodes", commander |-> c, responders |-> rs])
          ELSE /\ Goto(AfterNode(la), "start", la,
                       [kind |-> "nodes", commander |-> c, responders |-> rs])
               /\ commander' = c
               /\ responders' = rs
               /\ subscribed_signals' = [r \in rs |-> <<>>]
               /\ UNCHANGED <<bitrate, signals, messages, sporadic_frames, event_frames,
                              schedule_tables, encodings, cur, tokErr, items>>

NodeComposition ==
    /\ AtStart("NodeComposition")
    /\ Goto("Signal", "start", NoPeek, [kind |-> "composite"])
    /\ UNCHANGED <<dataVars, tokErr, items>>

----------------------------------------------------------------------------
(* Signals *)

\* if bit_width > MAX_SIGNAL_WIDTH { return Err(SignalTooWide) }
SignalWidthCheck(bit_width) ==
    IF bit_width > MAX_SIGNAL_WIDTH THEN "SignalTooWide" ELSE "ok"

SignalStart ==
    /\ AtStart("Signal")
    /\ Goto("Signal", "loop", NoPeek, [kind |-> "open"])
    /\ UNCHANGED <<dataVars, tokErr, items>>

RECURSIVE Subscribe(_, _, _, _)
\* Mutant: a responder named twice by a declaration subscribes once.
Subscribe_Once(subs, resps, subscribers, name) ==
    [r \in DOMAIN subs |->
        IF r \in resps /\ Contains(subscribers, r) THEN Append(subs[r], name) ELSE subs[r]]

\* The subscriber loop of a declaration: the signal's name is pushed on the
\* subscribed_signals of every subscriber that is a key of data.responders.
Subscribe(subs, resps, subscribers, name) ==
    IF subscribers = <<>> THEN subs
    ELSE LET subscriber == Head(subscribers)
         IN Subscribe(IF subscriber \in resps
                      THEN [subs EXCEPT ![subscriber] = Append(@, name)]
                      ELSE subs,
                      resps, Tail(subscribers), name)

\* Mutant: the signal is made big-endian.
Signal_BigEndian(bit_width) ==
    [signed |-> FALSE, little_endian |-> FALSE, bit_start |-> BIT_START_INVALID,
     bit_width |-> bit_width, encodings |-> <<>>]

\* Signal { signed: false, little_endian: true, bit_start: BIT_START_INVALID,
\*          bit_width, init_value, encodings: Vec::new() }
Signal(bit_width) ==
    [signed |-> FALSE, little_endian |-> TRUE, bit_start |-> BIT_START_INVALID,
     bit_width |-> bit_width, encodings |-> <<>>]

\* One declaration `name : width , init , publisher {, subscriber} ;', its width,
\* publisher and subscriber tokens drawn from the given sets.
SignalDeclOf(widths, publishers, lists) ==
    /\ Running /\ state = "Signal" /\ pc = "loop" /\ items < limit
    /\ \E name \in SigNames, lit \in widths, publisher \in publishers,
          subscribers \in lists :
         LET v  == parse_integer(lit)
             it == [kind |-> "signal", name |-> name, width |-> v,
                    publisher |-> publisher, subscribers |-> subscribers]
         IN IF v = NumErr THEN Fail("NumberParse", it)
            ELSE IF SignalWidthCheck(AsU16(v)) # "ok"
                 THEN Fail(SignalWidthCheck(AsU16(v)), it)
                 ELSE /\ Goto("Signal", "loop", NoPeek, it)
                      /\ signals' = Insert(signals, name, Signal(AsU16(v)))
                      /\ subscribed_signals' =
                             Subscribe(subscribed_signals, responders, subscribers, name)
                      /\ items' = items + 1
                      /\ UNCHANGED <<bitrate, commander, responders, messages, sporadic_frames,
                                     event_frames, schedule_tables, encodings, cur, tokErr>>

\* A declaration without subscribers.
SignalDecl == SignalDeclOf(WidthLits, CommanderNames, {<<>>})

\* A declaration with its subscribers.
SignalDeclSubscribed == SignalDeclOf(SubscribedWidthLits, PublisherNames, SubscriberLists)

SignalEnd ==
    /\ Running /\ state = "Signal" /\ pc = "loop"
    /\ \E la \in PeekToks \cup LexErrs :
          LookAhead(la, AfterSignal(la), [kind |-> "close"])

\* The literals of the check_equal of the Diagnostic_signals arm.
DiagnosticSignalsTemplate ==
    << "Diagnostic_signals", "{",
           "MasterReqB0", ":", "8", ",", "0", ";",
           "MasterReqB1", ":", "8", ",", "0", ";",
           "MasterReqB2", ":", "8", ",", "0", ";",
           "MasterReqB3", ":", "8", ",", "0", ";",
           "MasterReqB4", ":", "8", ",", "0", ";",
           "MasterReqB5", ":", "8", ",", "0", ";",
           "MasterReqB6", ":", "8", ",", "0", ";",
           "MasterReqB7", ":", "8", ",", "0", ";",
           "SlaveRespB0", ":", "8", ",", "0", ";",
           "SlaveRespB1", ":", "8", ",", "0", ";",
           "SlaveRespB2", ":", "8", ",", "0", ";",
           "SlaveRespB3", ":", "8", ",", "0", ";",
           "SlaveRespB4", ":", "8", ",", "0", ";",
           "SlaveRespB5", ":", "8", ",", "0", ";",
           "SlaveRespB6", ":", "8", ",", "0", ";",
           "SlaveRespB7", ":", "8", ",", "0", ";",
       "}" >>

\* The tokens put in the place of a literal of a template: a word of no
\* template, a numeral of the same value as a literal but of another spelling,
\* and a name of the template out of its place.
DeviantToks == {"other", "0x8", "MasterReqB1"}

\* The block is the template, or the template with the token t at its place
\* k > 1 (the first token is the one the look-ahead has seen): check_equal
\* compares token by token, nothing is stored.
DiagnosticSignal ==
    /\ AtStart("DiagnosticSignal")
    /\ \E k \in 0..Len(DiagnosticSignalsTemplate), t \in DeviantToks :
          LET T      == DiagnosticSignalsTemplate
              actual == IF k = 0 THEN T ELSE [T EXCEPT ![k] = t]
              it     == [kind |-> "diagnostic_signals", at |-> k,
                         token |-> IF k = 0 THEN "" ELSE t]
          IN
          /\ k # 1
          /\ IF k = 0 THEN t = "other" ELSE t # T[k]
          /\ IF check_equal(actual, T) # "ok"
             THEN Fail(check_equal(actual, T), it)
             ELSE /\ Goto("Frame", "start", NoPeek, it)
                  /\ UNCHANGED <<dataVars, tokErr, items>>

----------------------------------------------------------------------------
(* Frames *)

\* Mutant: the two error returns exchanged.
FrameSignalCheck_Swapped(sigs, signal_name) ==
    IF signal_name \in DOMAIN sigs
    THEN IF sigs[signal_name].bit_start = BIT_START_INVALID
         THEN "ok"
         ELSE "UnknownSignal"
    ELSE "DuplicateSignal"

\* The checks made on one (signal name, offset) entry of a frame.
FrameSignalCheck(sigs, signal_name) ==
    IF signal_name \in DOMAIN sigs
    THEN IF sigs[signal_name].bit_start = BIT_START_INVALID
         THEN "ok"
         ELSE "DuplicateSignal"
    ELSE "UnknownSignal"

FrameStart ==
    /\ AtStart("Frame")
    /\ Goto("Frame", "loop", NoPeek, [kind |-> "open"])
    /\ UNCHANGED <<dataVars, tokErr, items>>

FrameHeader ==
    /\ Running /\ state = "Frame" /\ pc = "loop" /\ items < limit
    /\ \E name \in FrameNames, idl \in IdLits, sender \in NodeNames, bwl \in ByteWidthLits :
         LET id == parse_integer(idl)
             bw == parse_integer(bwl)
             it == [kind |-> "frame", name |-> name, id |-> id, sender |-> sender,
                    byte_width |-> bw]
         IN IF id = NumErr \/ bw = NumErr THEN Fail("NumberParse", it)
            ELSE /\ Goto("Frame", "inner", NoPeek, it)
                 /\ cur' = [kind |-> "frame", name |-> name, sender |-> sender,
                            id |-> id, byte_width |-> AsU16(bw), signals |-> <<>>]
                 /\ items' = items + 1
                 /\ UNCHANGED <<bitrate, commander, responders, subscribed_signals, signals, messages,
                                sporadic_frames, event_frames, schedule_tables, encodings, tokErr>>

FrameSignal ==
    /\ Running /\ state = "Frame" /\ pc = "inner" /\ items < limit
    /\ \E signal_name \in SigNames, lit \in OffsetLits :
         LET v  == parse_integer(lit)
             it == [kind |-> "frame_signal", name |-> signal_name, offset |-> v]
             ck == FrameSignalCheck(signals, signal_name)
         IN IF v = NumErr THEN Fail("NumberParse", it)
            ELSE IF ck # "ok" THEN Fail(ck, it)
            ELSE /\ Goto("Frame", "inner", NoPeek, it)
                 /\ signals' = [signals EXCEPT ![signal_name].bit_start = AsU16(v)]
                 /\ cur' = [cur EXCEPT !.signals = Append(@, signal_name)]
                 /\ items' = items + 1
                 /\ UNCHANGED <<bitrate, commander, responders, subscribed_signals, messages, sporadic_frames,
                                event_frames, schedule_tables, encodings, tokErr>>

FrameClose ==
    /\ Running /\ state = "Frame" /\ pc = "inner"
    /\ Goto("Frame", "loop", NoPeek, [kind |-> "close"])
    /\ messages' = Insert(messages, cur.name,
                          [sender |-> cur.sender, id |-> cur.id,
                           byte_width |-> cur.byte_width, signals |-> cur.signals,
                           mux_signals |-> EmptyMap])
    /\ cur' = NoCur
    /\ UNCHANGED <<bitrate, commander, responders, subscribed_signals, signals, sporadic_frames, event_frames,
                   schedule_tables, encodings, tokErr, items>>

FrameEnd ==
    /\ Running /\ state = "Frame" /\ pc = "loop"
    /\ \E la \in PeekToks \cup LexErrs :
          LookAhead(la, AfterFrame(la), [kind |-> "close"])

----------------------------------------------------------------------------
(* Sporadic_frames *)

\* The checks made on a constituent frame read inside the `while' loop, i.e. on
\* every constituent but the first.
SporadicFrameCheck(msgs, cmdr, frames, f) ==
    IF f \notin DOMAIN msgs THEN "UnknownFrame"
    ELSE IF msgs[f].sender # cmdr THEN "SporadicFrameHasResponder"
    ELSE IF Contains(frames, f) THEN "DuplicateFrame"
    ELSE "ok"

\* The check made on the group's name once its list is read.
SporadicNameCheck(msgs, spor, name) ==
    IF name \in DOMAIN msgs \/ name \in DOMAIN spor THEN "DuplicateFrame" ELSE "ok"

SporadicFrameStart ==
    /\ AtStart("SporadicFrame")
    /\ Goto("SporadicFrame", "loop", NoPeek, [kind |-> "open"])
    /\ UNCHANGED <<dataVars, tokErr, items>>

\* name ":" and the first constituent: vec![tokens.next()?.to_string()]
SporadicFrameHeader ==
    /\ Running /\ state = "SporadicFrame" /\ pc = "loop" /\ items < limit
    /\ \E name \in GroupNames, f \in FrameNames :
         /\ Goto("SporadicFrame", "inner", NoPeek,
                 [kind |-> "sporadic_first", name |-> name, frame |-> f])
         /\ cur' = [kind |-> "sporadic", name |-> name, frames |-> <<f>>]
         /\ items' = items + 1
    /\ UNCHANGED <<bitrate, commander, responders, subscribed_signals, signals, messages, sporadic_frames,
                   event_frames, schedule_tables, encodings, tokErr>>

SporadicFrameEntry ==
    /\ Running /\ state = "SporadicFrame" /\ pc = "inner" /\ items < limit
    /\ \E f \in FrameNames :
         LET it == [kind |-> "sporadic_frame", frame |-> f]
             ck == SporadicFrameCheck(messages, commander, cur.frames, f)
         IN IF ck # "ok" THEN Fail(ck, it)
            ELSE /\ Goto("SporadicFrame", "inner", NoPeek, it)
                 /\ cur' = [cur EXCEPT !.frames = Append(@, f)]
                 /\ items' = items + 1
                 /\ UNCHANGED <<bitrate, commander, responders, subscribed_signals, signals, messages,
                                sporadic_frames, event_frames, schedule_tables, encodings, tokErr>>

SporadicFrameClose ==
    /\ Running /\ state = "SporadicFrame" /\ pc = "inner"
    /\ LET it == [kind |-> "sporadic_group", name |-> cur.name, frames |-> cur.frames]
           ck == SporadicNameCheck(messages, sporadic_frames, cur.name)
       IN IF ck # "ok" THEN Fail(ck, it)
          ELSE /\ Goto("SporadicFrame", "loop", NoPeek, it)
               /\ sporadic_frames' = Insert(sporadic_frames, cur.name, cur.frames)
               /\ cur' = NoCur
               /\ UNCHANGED <<bitrate, commander, responders, subscribed_signals, signals, messages, event_frames,
                              schedule_tables, encodings, tokErr, items>>

SporadicFrameEnd ==
    /\ Running /\ state = "SporadicFrame" /\ pc = "loop"
    /\ \E la \in PeekToks \cup LexErrs :
          LookAhead(la, AfterSporadicFrame(la), [kind |-> "close"])

----------------------------------------------------------------------------
(* Event_triggered_frames *)

\* Mutant: the frames.contains(&f) test left out.
EventFrameCheck_NoContains(msgs, frames, f) ==
    IF f \in DOMAIN msgs THEN "ok" ELSE "NotUnconditionalFrame"

\* The checks made on every constituent frame of an event-triggered group.
EventFrameCheck(msgs, frames, f) ==
    IF Contains(frames, f) THEN "DuplicateFrame"
    ELSE IF f \in DOMAIN msgs THEN "ok"
    ELSE "NotUnconditionalFrame"

\* Mutant: frames.iter().any(..) in place of frames.iter().all(..).
all_same_len_Any(msgs, frames) ==
    IF frames = <<>> THEN TRUE
    ELSE LET first == msgs[frames[1]].byte_width
         IN \E i \in 1..Len(frames) : msgs[frames[i]].byte_width = first

all_same_len(msgs, frames) ==
    IF frames = <<>> THEN TRUE
    ELSE LET first == msgs[frames[1]].byte_width
         IN \A i \in 1..Len(frames) : msgs[frames[i]].byte_width = first

\* Mutant: data.sporadic_frames.contains_key(&name) left out.
EventGroupCheck_NoSporadic(msgs, spor, ev, name, frames) ==
    IF name \in DOMAIN msgs \/ name \in DOMAIN ev
    THEN "DuplicateFrame"
    ELSE IF all_same_len(msgs, frames) THEN "ok"
    ELSE "EventFrameDifferentLength"

\* The checks made on the group once its list is read.
EventGroupCheck(msgs, spor, ev, name, frames) ==
    IF name \in DOMAIN msgs \/ name \in DOMAIN spor \/ name \in DOMAIN ev
    THEN "DuplicateFrame"
    ELSE IF all_same_len(msgs, frames) THEN "ok"
    ELSE "EventFrameDifferentLength"

EventTriggeredFrameStart ==
    /\ AtStart("EventTriggeredFrame")
    /\ Goto("EventTriggeredFrame", "loop", NoPeek, [kind |-> "open"])
    /\ UNCHANGED <<dataVars, tokErr, items>>

ResolverNames == {"Table1"}

EventTriggeredFrameHeader ==
    /\ Running /\ state = "EventTriggeredFrame" /\ pc = "loop" /\ items < limit
    /\ \E name \in GroupNames, resolver \in ResolverNames, idl \in IdLits :
         LET id == parse_integer(idl)
             it == [kind |-> "event_header", name |-> name]
         IN IF id = NumErr THEN Fail("NumberParse", it)
            ELSE /\ Goto("EventTriggeredFrame", "inner", NoPeek, it)
                 /\ cur' = [kind |-> "event", name |-> name, resolver |-> resolver,
                            id |-> id, frames |-> <<>>]
                 /\ items' = items + 1
                 /\ UNCHANGED <<bitrate, commander, responders, subscribed_signals, signals, messages,
                                sporadic_frames, event_frames, schedule_tables, encodings, tokErr>>

EventTriggeredFrameEntry ==
    /\ Running /\ state = "EventTriggeredFrame" /\ pc = "inner" /\ items < limit
    /\ \E f \in FrameNames :
         LET it == [kind |-> "event_frame", frame |-> f]
             ck == EventFrameCheck(messages, cur.frames, f)
         IN IF ck # "ok" THEN Fail(ck, it)
            ELSE /\ Goto("EventTriggeredFrame", "inner", NoPeek, it)
                 /\ cur' = [cur EXCEPT !.frames = Append(@, f)]
                 /\ items' = items + 1
                 /\ UNCHANGED <<bitrate, commander, responders, subscribed_signals, signals, messages,
                                sporadic_frames, event_frames, schedule_tables, encodings, tokErr>>

EventTriggeredFrameClose ==
    /\ Running /\ state = "EventTriggeredFrame" /\ pc = "inner"
    /\ LET it == [kind |-> "event_group", name |-> cur.name, frames |-> cur.frames]
           ck == EventGroupCheck(messages, sporadic_frames, event_frames,
                                 cur.name, cur.frames)
       IN IF ck # "ok" THEN Fail(ck, it)
          ELSE /\ Goto("EventTriggeredFrame", "loop", NoPeek, it)
               /\ event_frames' = Insert(event_frames, cur.name,
                      [resolver |-> cur.resolver, id |-> cur.id, frames |-> cur.frames])
               /\ cur' = NoCur
               /\ UNCHANGED <<bitrate, commander, responders, subscribed_signals, signals, messages,
                              sporadic_frames, schedule_tables, encodings, tokErr, items>>

EventTriggeredFrameEnd ==
    /\ Running /\ state = "EventTriggeredFrame" /\ pc = "loop"
    /\ \E la \in PeekToks \cup LexErrs :
          LookAhead(la, AfterEventTriggeredFrame(la), [kind |-> "close"])

\* The literals of the check_equal of the Diagnostic_frames arm.
DiagnosticFramesTemplate ==
    << "Diagnostic_frames", "{",
           "MasterReq", ":", "60", "{",
               "MasterReqB0", ",", "0", ";",
               "MasterReqB1", ",", "8", ";",
               "MasterReqB2", ",", "16", ";",
               "MasterReqB3", ",", "24", ";",
               "MasterReqB4", ",", "32", ";",
               "MasterReqB5", ",", "40", ";",
               "MasterReqB6", ",", "48", ";",
               "MasterReqB7", ",", "56", ";",
           "}",
           "SlaveResp", ":", "61", "{",
               "SlaveRespB0", ",", "0", ";",
               "SlaveRespB1", ",", "8", ";",
               "SlaveRespB2", ",", "16", ";",
               "SlaveRespB3", ",", "24", ";",
               "SlaveRespB4", ",", "32", ";",
               "SlaveRespB5", ",", "40", ";",
               "SlaveRespB6", ",", "48", ";",
               "SlaveRespB7", ",", "56", ";",
           "}",
       "}" >>

\* As the Diagnostic_signals arm, on the template of the frames.
DiagnosticFrame ==
    /\ AtStart("DiagnosticFrame")
    /\ \E k \in 0..Len(DiagnosticFramesTemplate), t \in DeviantToks :
          LET T      == DiagnosticFramesTemplate
              actual == IF k = 0 THEN T ELSE [T EXCEPT ![k] = t]
              it     == [kind |-> "diagnostic_frames", at |-> k,
                         token |-> IF k = 0 THEN "" ELSE t]
          IN
          /\ k # 1
          /\ IF k = 0 THEN t = "other" ELSE t # T[k]
          /\ IF check_equal(actual, T) # "ok"
             THEN Fail(check_equal(actual, T), it)
             ELSE /\ Goto("NodeAttributes", "start", NoPeek, it)
                  /\ UNCHANGED <<dataVars, tokErr, items>>

----------------------------------------------------------------------------
(* Node_attributes *)

ProtocolToks == {"\"2.2\"", "\"1.3\""}

\* protocol.starts_with("\"2.")
IsProtocol2(protocol) == protocol = "\"2.2\""

\* The checks made on one node's attribute block up to `configurable_frames {'.
NodeAttributesCheck(resps, sigs, name, protocol, response_error) ==
    IF name \notin resps THEN "UnknownNode"
    ELSE IF IsProtocol2(protocol) /\ response_error \notin DOMAIN sigs THEN "UnknownSignal"
    ELSE "ok"

\* The check made on one entry of configurable_frames.
ConfigurableFrameCheck(msgs, ev, frame) ==
    IF frame \notin DOMAIN msgs /\ frame \notin DOMAIN ev THEN "UnknownFrame" ELSE "ok"

NodeAttributesStart ==
    /\ AtStart("NodeAttributes")
    /\ Goto("NodeAttributes", "loop", NoPeek, [kind |-> "open"])
    /\ UNCHANGED <<dataVars, tokErr, items>>

NodeAttributesEntry ==
    /\ Running /\ state = "NodeAttributes" /\ pc = "loop" /\ items < limit
    /\ \E name \in NodeNames, protocol \in ProtocolToks, response_error \in SigNames :
         LET it == [kind |-> "node_attributes", name |-> name, protocol |-> protocol]
             ck == NodeAttributesCheck(responders, signals, name, protocol, response_error)
         IN IF ck # "ok" THEN Fail(ck, it)
            ELSE /\ Goto("NodeAttributes", IF IsProtocol2(protocol) THEN "inner" ELSE "loop",
                         NoPeek, it)
                 /\ items' = items + 1
                 /\ UNCHANGED <<dataVars, tokErr>>

ConfigurableFrame ==
    /\ Running /\ state = "NodeAttributes" /\ pc = "inner" /\ items < limit
    /\ \E frame \in FrameNames \cup GroupNames :
         LET it == [kind |-> "configurable_frame", frame |-> frame]
             ck == ConfigurableFrameCheck(messages, event_frames, frame)
         IN IF ck # "ok" THEN Fail(ck, it)
            ELSE /\ Goto("NodeAttributes", "inner", NoPeek, it)
                 /\ items' = items + 1
                 /\ UNCHANGED <<dataVars, tokErr>>

NodeAttributesEntryClose ==
    /\ Running /\ state = "NodeAttributes" /\ pc = "inner"
    /\ Goto("NodeAttributes", "loop", NoPeek, [kind |-> "close"])
    /\ UNCHANGED <<dataVars, tokErr, items>>

NodeAttributesEnd ==
    /\ Running /\ state = "NodeAttributes" /\ pc = "loop"
    /\ Goto("ScheduleTable", "start", NoPeek, [kind |-> "close"])
    /\ UNCHANGED <<dataVars, tokErr, items>>

----------------------------------------------------------------------------
(* Schedule_tables *)

NodeCommands == {"AssignNAD", "DataDump", "SaveConfiguration", "AssignFrameIdRange"}
PlainCommands == {"MasterReq", "SlaveResp", "ConditionalChangeNAD", "FreeFormat"}
CommandWords ==
    NodeCommands \cup PlainCommands \cup {"AssignFrameId"} \cup FrameNames \cup GroupNames
TableNames == {"Table1"}

\* Mutant: the AssignFrameId arm without its data.responders.contains_key test.
ScheduleCommandCheck_NoNodeTest(resps, msgs, spor, ev, cmd, node, frame) ==
    CASE cmd \in PlainCommands -> "ok"
      [] cmd \in NodeCommands -> IF node \notin resps THEN "UnknownNode" ELSE "ok"
      [] cmd = "AssignFrameId" -> IF frame \notin DOMAIN msgs THEN "UnknownFrame" ELSE "ok"
      [] OTHER ->
            IF cmd \notin DOMAIN msgs /\ cmd \notin DOMAIN spor /\ cmd \notin DOMAIN ev
            THEN "UnknownFrame"
            ELSE "ok"

\* Mutant: the catch-all arm looks the word up in db.messages only.
ScheduleCommandCheck_MessagesOnly(resps, msgs, spor, ev, cmd, node, frame) ==
    CASE cmd \in PlainCommands -> "ok"
      [] cmd \in NodeCommands -> IF node \notin resps THEN "UnknownNode" ELSE "ok"
      [] cmd = "AssignFrameId" ->
            IF node \notin resps THEN "UnknownNode"
            ELSE IF frame \notin DOMAIN msgs THEN "UnknownFrame"
            ELSE "ok"
      [] OTHER -> IF cmd \notin DOMAIN msgs THEN "UnknownFrame" ELSE "ok"

\* The checks of `match cmd.as_str()'; node and frame are the names the command reads.
ScheduleCommandCheck(resps, msgs, spor, ev, cmd, node, frame) ==
    CASE cmd \in PlainCommands -> "ok"
      [] cmd \in NodeCommands -> IF node \notin resps THEN "UnknownNode" ELSE "ok"
      [] cmd = "AssignFrameId" ->
            IF node \notin resps THEN "UnknownNode"
            ELSE IF frame \notin DOMAIN msgs THEN "UnknownFrame"
            ELSE "ok"
      [] OTHER ->
            IF cmd \notin DOMAIN msgs /\ cmd \notin DOMAIN spor /\ cmd \notin DOMAIN ev
            THEN "UnknownFrame"
            ELSE "ok"

\* The LDFScheduleCommand built (its name fields).
ScheduleCommand(cmd, node, frame) ==
    CASE cmd \in PlainCommands -> [cmd |-> cmd]
      [] cmd \in NodeCommands -> [cmd |-> cmd, node |-> node]
      [] cmd = "AssignFrameId" -> [cmd |-> cmd, node |-> node, frame |-> frame]
      [] OTHER -> [cmd |-> "Frame", frame |-> cmd]

\* The tokens that follow a command: the suffix `delay <value> ms ;' with a
\* value that parses or not, and the suffix with one token replaced.
DelayLits == { <<"1","0">>, <<"2",".","5">>, <<"1","x">> }
Suffixes ==
    {<<"delay", lit, "ms", ";">> : lit \in DelayLits}
    \cup {<<"other", <<"1","0">>, "ms", ";">>, <<"delay", <<"1","0">>, "other", ";">>,
          <<"delay", <<"1","0">>, "ms", "other">>}

\* Mutant: the unit and the semicolon are not compared.
SuffixCheck_NoUnit(suffix) ==
    IF check_equal(<<suffix[1]>>, <<"delay">>) # "ok" THEN "IncorrectToken"
    ELSE IF parse_real_or_integer(suffix[2]) = NumErr THEN "NumberParse"
    ELSE "ok"

\* check_equal(["delay"])?; parse_real_or_integer(next()?)?; check_equal(["ms", ";"])?
SuffixCheck(suffix) ==
    IF check_equal(<<suffix[1]>>, <<"delay">>) # "ok" THEN "IncorrectToken"
    ELSE IF parse_real_or_integer(suffix[2]) = NumErr THEN "NumberParse"
    ELSE check_equal(<<suffix[3], suffix[4]>>, <<"ms", ";">>)

ScheduleTableStart ==
    /\ AtStart("ScheduleTable")
    /\ Goto("ScheduleTable", "loop", NoPeek, [kind |-> "open"])
    /\ UNCHANGED <<dataVars, tokErr, items>>

ScheduleTableHeader ==
    /\ Running /\ state = "ScheduleTable" /\ pc = "loop" /\ items < limit
    /\ \E name \in TableNames :
         /\ Goto("ScheduleTable", "inner", NoPeek, [kind |-> "table", name |-> name])
         /\ cur' = [kind |-> "table", name |-> name, table |-> <<>>]
    /\ items' = items + 1
    /\ UNCHANGED <<bitrate, commander, responders, subscribed_signals, signals, messages, sporadic_frames,
                   event_frames, schedule_tables, encodings, tokErr>>

ScheduleTableEntry ==
    /\ Running /\ state = "ScheduleTable" /\ pc = "inner" /\ items < limit
    /\ \E cmd \in CommandWords, node \in NodeNames, frame \in FrameNames,
          suffix \in Suffixes :
         LET command == ScheduleCommand(cmd, node, frame)
             ck == ScheduleCommandCheck(responders, messages, sporadic_frames,
                                        event_frames, cmd, node, frame)
             frame_time == parse_real_or_integer(suffix[2])
         IN IF ck # "ok" THEN Fail(ck, [kind |-> "command", command |-> command])
            ELSE IF SuffixCheck(suffix) # "ok"
            THEN Fail(SuffixCheck(suffix),
                      [kind |-> "command", command |-> command, suffix |-> suffix])
            ELSE /\ Goto("ScheduleTable", "inner", NoPeek,
                         [kind |-> "command", command |-> command, suffix |-> suffix])
                 /\ cur' = [cur EXCEPT !.table = Append(@, <<command, frame_time>>)]
                 /\ items' = items + 1
                 /\ UNCHANGED <<bitrate, commander, responders, subscribed_signals, signals, messages,
                                sporadic_frames, event_frames, schedule_tables,
                                encodings, tokErr>>

ScheduleTableClose ==
    /\ Running /\ state = "ScheduleTable" /\ pc = "inner"
    /\ Goto("ScheduleTable", "loop", NoPeek, [kind |-> "close"])
    /\ schedule_tables' = Insert(schedule_tables, cur.name, cur.table)
    /\ cur' = NoCur
    /\ UNCHANGED <<bitrate, commander, responders, subscribed_signals, signals, messages, sporadic_frames,
                   event_frames, encodings, tokErr, items>>

ScheduleTableEnd ==
    /\ Running /\ state = "ScheduleTable" /\ pc = "loop"
    /\ \E la \in PeekToks \cup LexErrs :
          LookAheadOrDone(la, AfterScheduleTable(la), [kind |-> "lookahead", token |-> la])

----------------------------------------------------------------------------
(* Signal_groups, Signal_encoding_types, Signal_representation *)

SignalGroups ==
    /\ AtStart("SignalGroups")
    /\ \E la \in PeekToks \cup LexErrs :
          LookAheadOrDone(la, AfterSignalGroups(la), [kind |-> "lookahead", token |-> la])

EncodingNames == {"Enc1", "Enc2"}
EncodingWords == {"logical_value", "physical_value", "bcd_value", "ascii_value", "other"}

\* The optional text of an entry when the entry has none.
NoText == ""

\* The entries of an encoding block: a logical value with or without its text, a
\* physical range (of which the model keeps raw_min), the two unsupported
\* kinds, and an entry that begins with another word.
EncodingEntries(values, texts) ==
    {[word |-> "logical_value", value |-> v, text |-> t] :
         v \in values, t \in texts \cup {NoText}}
    \cup {[word |-> "physical_value", value |-> v, text |-> NoText] : v \in values}
    \cup {[word |-> w, value |-> 0, text |-> NoText] :
             w \in EncodingWords \ {"logical_value", "physical_value"}}

\* Entries with the value 0 and the text "on", if they have one.
PlainEntries == EncodingEntries({0}, {"on"})

\* Entries with one of two values and one of two texts.
ValuedEntries == EncodingEntries({0, 1}, {"on", "off"})

\* if encodings.contains_key(&name) { return Err(DuplicateEncoding) }
EncodingNameCheck(encs, name) == IF name \in DOMAIN encs THEN "DuplicateEncoding" ELSE "ok"

\* The match on the first word of an entry of an encoding block.
EncodingWordCheck(word) ==
    IF word \in {"logical_value", "physical_value", "bcd_value", "ascii_value"}
    THEN "ok"
    ELSE "IncorrectToken"

\* The map logicals once the entry e is read: a logical value is inserted under
\* its text, and ignored when it has none.
Logicals(logicals, e) ==
    IF e.word = "logical_value" /\ e.text # NoText
    THEN Insert(logicals, e.text, e.value)
    ELSE logicals

\* The list encodings[name] once the entry e is read: a physical range pushes a
\* Scalar.
Scalars(list, e) ==
    IF e.word = "physical_value"
    THEN Append(list, [enc |-> "Scalar", raw_min |-> e.value])
    ELSE list

\* Mutant: the Enum is pushed in front of the Scalars.
EndOfBlock_EnumFirst(list, name, logicals) ==
    IF DOMAIN logicals # {}
    THEN <<[enc |-> "Enum", name |-> name, map |-> logicals]>> \o list
    ELSE list

\* if !logicals.is_empty() { encodings.get_mut(&name).unwrap().push(Enum{..}) }
EndOfBlock(list, name, logicals) ==
    IF DOMAIN logicals # {}
    THEN Append(list, [enc |-> "Enum", name |-> name, map |-> logicals])
    ELSE list

SignalEncodingTypesStart ==
    /\ AtStart("SignalEncodingTypes")
    /\ Goto("SignalEncodingTypes", "loop", NoPeek, [kind |-> "open"])
    /\ UNCHANGED <<dataVars, tokErr, items>>

SignalEncodingTypesHeader ==
    /\ Running /\ state = "SignalEncodingTypes" /\ pc = "loop" /\ items < limit
    /\ \E name \in EncodingNames :
         LET it == [kind |-> "encoding", name |-> name]
             ck == EncodingNameCheck(encodings, name)
         IN IF ck # "ok" THEN Fail(ck, it)
            ELSE /\ Goto("SignalEncodingTypes", "inner", NoPeek, it)
                 /\ encodings' = Insert(encodings, name, <<>>)
                 /\ cur' = [kind |-> "encoding", name |-> name, logicals |-> EmptyMap,
                            entries |-> <<>>]
                 /\ items' = items + 1
                 /\ UNCHANGED <<bitrate, commander, responders, subscribed_signals, signals,
                                messages, sporadic_frames, event_frames, schedule_tables,
                                tokErr>>

\* One entry of a block, drawn from the given set; cur.entries keeps the entries
\* of the block read so far.
SignalEncodingTypesEntryOf(entries) ==
    /\ Running /\ state = "SignalEncodingTypes" /\ pc = "inner" /\ items < limit
    /\ \E e \in entries :
         LET it == [kind |-> "encoding_value", word |-> e.word, value |-> e.value,
                    text |-> e.text]
             ck == EncodingWordCheck(e.word)
         IN IF ck # "ok" THEN Fail(ck, it)
            ELSE /\ Goto("SignalEncodingTypes", "inner", NoPeek, it)
                 /\ encodings' = [encodings EXCEPT ![cur.name] = Scalars(@, e)]
                 /\ cur' = [cur EXCEPT !.logicals = Logicals(@, e),
                                       !.entries = Append(@, e)]
                 /\ items' = items + 1
                 /\ UNCHANGED <<bitrate, commander, responders, subscribed_signals, signals,
                                messages, sporadic_frames, event_frames, schedule_tables,
                                tokErr>>

SignalEncodingTypesEntry == SignalEncodingTypesEntryOf(PlainEntries)

SignalEncodingTypesEntryValued == SignalEncodingTypesEntryOf(ValuedEntries)

SignalEncodingTypesClose ==
    /\ Running /\ state = "SignalEncodingTypes" /\ pc = "inner"
    /\ Goto("SignalEncodingTypes", "loop", NoPeek, [kind |-> "close"])
    /\ encodings' = [encodings EXCEPT ![cur.name] = EndOfBlock(@, cur.name, cur.logicals)]
    /\ cur' = NoCur
    /\ UNCHANGED <<bitrate, commander, responders, subscribed_signals, signals, messages,
                   sporadic_frames, event_frames, schedule_tables, tokErr, items>>

SignalEncodingTypesEnd ==
    /\ Running /\ state = "SignalEncodingTypes" /\ pc = "loop"
    /\ \E la \in PeekToks \cup LexErrs :
          LookAheadOrDone(la, AfterSignalEncodingTypes(la),
                          [kind |-> "lookahead", token |-> la])

\* Mutant: peek() reads past the token that the look-ahead has peeked.
PeekResults_Fresh == PeekToks \cup LexErrs

\* What tokens.peek() returns: the token peeked before while the cursor has not
\* moved, any token or tokenizer error otherwise.
PeekResults == IF peeked # NoPeek THEN {peeked} ELSE PeekToks \cup LexErrs

\* if tokens.peek().is_ok() { return Err(UnexpectedToken) }  state = Done
SignalRepresentation ==
    /\ Running /\ state = "SignalRepresentation"
    /\ \E r \in PeekResults :
         LET it == [kind |-> "lookahead", token |-> r]
         IN IF r \in LexErrs
            THEN /\ Goto("Done", "start", NoPeek, it)
                 /\ tokErr' = r
                 /\ UNCHANGED <<dataVars, items>>
            ELSE Fail("UnexpectedToken", it)

\* db.extra = DatabaseType::LDF(data); Ok(db)
Return ==
    /\ Running /\ state = "Done"
    /\ result' = "Ok"
    /\ extra' = "LDF"
    /\ item' = [kind |-> "return"]
    /\ matched' = Follow(matched, [kind |-> "return"])
    /\ UNCHANGED <<state, pc, peeked, dataVars, tokErr, items, limit, tokVars>>

----------------------------------------------------------------------------
(* The parse *)

Start(l) ==
    /\ state = "Header"
    /\ pc = "start"
    /\ peeked = NoPeek
    /\ result = "running"
    /\ bitrate = 0
    /\ commander = ""
    /\ responders = {}
    /\ subscribed_signals = EmptyMap
    /\ signals = EmptyMap
    /\ messages = EmptyMap
    /\ sporadic_frames = EmptyMap
    /\ event_frames = EmptyMap
    /\ schedule_tables = EmptyMap
    /\ extra = "NCF"
    /\ encodings = EmptyMap
    /\ cur = NoCur
    /\ item = NoItem
    /\ tokErr = "none"
    /\ matched = 0
    /\ items = 0
    /\ limit = l
    /\ data = <<>>
    /\ index = 0
    /\ last = NoCall

\* The steps that read no loop item: the arms' openings, closings and look-aheads.
Control ==
    \/ SyntaxFail
    \/ IntroMismatch
    \/ Header
    \/ ProtocolVersion
    \/ LanguageVersion
    \/ Speed
    \/ ChannelName
    \/ Node
    \/ NodeComposition
    \/ SignalStart
    \/ SignalEnd
    \/ DiagnosticSignal
    \/ FrameStart
    \/ FrameEnd
    \/ SporadicFrameStart
    \/ SporadicFrameEnd
    \/ EventTriggeredFrameStart
    \/ EventTriggeredFrameEnd
    \/ DiagnosticFrame
    \/ NodeAttributesStart
    \/ NodeAttributesEnd
    \/ ScheduleTableStart
    \/ ScheduleTableEnd
    \/ SignalGroups
    \/ SignalEncodingTypesStart
    \/ SignalEncodingTypesEnd
    \/ SignalRepresentation
    \/ Return

FrameItems == FrameHeader \/ FrameClose

FrameSignalItems == SignalDecl \/ FrameSignal

GroupItems ==
    \/ SporadicFrameHeader
    \/ SporadicFrameEntry
    \/ SporadicFrameClose
    \/ EventTriggeredFrameHeader
    \/ EventTriggeredFrameEntry
    \/ EventTriggeredFrameClose

TailItems ==
    \/ NodeAttributesEntry
    \/ ConfigurableFrame
    \/ NodeAttributesEntryClose
    \/ ScheduleTableHeader
    \/ ScheduleTableEntry
    \/ ScheduleTableClose
    \/ SignalEncodingTypesHeader
    \/ SignalEncodingTypesEntry
    \/ SignalEncodingTypesClose

\* parse_ldf on the inputs of at most MaxItems items of any section.
Next == Control \/ FrameItems \/ FrameSignalItems \/ GroupItems \/ TailItems
Spec == Start(MaxItems) /\ [][Next]_vars

\* parse_ldf on the inputs of at most MaxFrameItems items, all of them signal
\* declarations, frames and frame signals.
NextFrames == Control \/ FrameItems \/ FrameSignalItems
SpecFrames == Start(MaxFrameItems) /\ [][NextFrames]_vars

\* parse_ldf on the inputs of at most MaxGroupItems items, all of them frames
\* (without signals), sporadic groups or event-triggered groups.
NextGroups == Control \/ FrameItems \/ GroupItems
SpecGroups == Start(MaxGroupItems) /\ [][NextGroups]_vars

\* Inputs of encoding blocks.
SpecEncodings ==
    /\ Start(MaxEncodingItems)
    /\ [][\/ Control
          \/ SignalEncodingTypesHeader
          \/ SignalEncodingTypesEntryValued
          \/ SignalEncodingTypesClose]_vars

\* Inputs of signal declarations with subscribers, and frames.
SpecSignals ==
    /\ Start(MaxSignalItems)
    /\ [][Control \/ SignalDeclSubscribed \/ FrameItems \/ FrameSignal]_vars

----------------------------------------------------------------------------
(* The tokenizer on a text *)

\* self.parse(update) called by next() (update = TRUE) or peek() (update = FALSE).
Call(op, update) ==
    LET r == parse(data, index) IN
    /\ last' = [op |-> op, from |-> index, r |-> r]
    /\ index' = NewIndex(update, r, index)
    /\ UNCHANGED <<data, state, pc, peeked, result, dataVars, extra, item, tokErr,
                   matched, items, limit>>

next == Call("next", TRUE)

peek == Call("peek", FALSE)

\* Tokenizer::new on a text of Texts; parse_ldf is not run.
InitTokens ==
    /\ data \in Texts
    /\ index = 0
    /\ last = NoCall
    /\ state = "Header"
    /\ pc = "start"
    /\ peeked = NoPeek
    /\ result = "running"
    /\ bitrate = 0
    /\ commander = ""
    /\ responders = {}
    /\ subscribed_signals = EmptyMap
    /\ signals = EmptyMap
    /\ messages = EmptyMap
    /\ sporadic_frames = EmptyMap
    /\ event_frames = EmptyMap
    /\ schedule_tables = EmptyMap
    /\ extra = "NCF"
    /\ encodings = EmptyMap
    /\ cur = NoCur
    /\ item = NoItem
    /\ tokErr = "none"
    /\ matched = 0
    /\ items = 0
    /\ limit = 0
SpecTokens == InitTokens /\ [][next \/ peek]_vars

----------------------------------------------------------------------------
(* The loops of the parser on a text *)

\* match tokens.next()? { "{" => depth += 1, "}" => depth -= 1, _ => () } of the
\* brace-depth loops, and the test of `while tokens.next()? != until {}', which
\* is held as a depth of 1 that the token `until' brings to 0.
Depth(c, tok) ==
    IF c.form = "depth"
    THEN IF tok = <<"{">> THEN c.depth + 1
         ELSE IF tok = <<"}">> THEN c.depth - 1
         ELSE c.depth
    ELSE IF tok = <<c.until>> THEN 0 ELSE c.depth

\* One iteration of `while depth > 0 { match tokens.next()? ... }' or of
\* `while tokens.next()? != until {}': the token is read, an Error of next() is
\* returned.
Skip ==
    /\ Running /\ pc = "loop" /\ cur.form # "peek"
    /\ LET r == parse(data, index) IN
       IF r.res # "token"
       THEN Fail(r.res, [kind |-> "token", token |-> r.token])
       ELSE /\ index' = NewIndex(TRUE, r, index)
            /\ last' = [op |-> "next", from |-> index, r |-> r]
            /\ cur' = [cur EXCEPT !.depth = Depth(cur, r.token)]
            /\ pc' = IF Depth(cur, r.token) = 0 THEN "after" ELSE "loop"
            /\ items' = items + 1
            /\ item' = [kind |-> "token", token |-> r.token]
            /\ matched' = Follow(matched, [kind |-> "token", token |-> r.token])
            /\ UNCHANGED <<state, peeked, result, bitrate, commander, responders,
                           subscribed_signals, signals, messages, sporadic_frames,
                           event_frames, schedule_tables, extra, encodings, tokErr,
                           limit, data>>

\* One iteration of `while tokens.peek()? != until { body }', or its end with the
\* tokens.next()? that reads `until'. Every body opens with tokens.next()? or
\* check_equal, which calls it, and goes on to read more tokens or to return an
\* Error: the body is held as one or two calls of next() and, or, an Error.
Section ==
    /\ Running /\ pc = "loop" /\ cur.form = "peek"
    /\ LET p  == parse(data, index)
           at == NewIndex(FALSE, p, index)
           r  == parse(data, at)
           r2 == parse(data, NewIndex(TRUE, r, at))
           it == [kind |-> "token", token |-> r.token]
           Read(q, from, to) ==
               /\ index' = NewIndex(TRUE, q, from)
               /\ last' = [op |-> "next", from |-> from, r |-> q]
               /\ cur' = [cur EXCEPT !.depth = IF to = "after" THEN 0 ELSE @]
               /\ pc' = to
               /\ items' = items + 1
               /\ item' = it
               /\ matched' = Follow(matched, it)
               /\ UNCHANGED <<state, peeked, result, bitrate, commander, responders,
                              subscribed_signals, signals, messages, sporadic_frames,
                              event_frames, schedule_tables, extra, encodings, tokErr,
                              limit, data>>
       IN
       IF p.res # "token" THEN Fail(p.res, it)
       ELSE IF p.token = <<cur.until>> THEN Read(r, at, "after")
       ELSE \/ Read(r, at, "loop")
            \/ IF r2.res # "token" THEN Fail(r2.res, it)
               ELSE Read(r2, NewIndex(TRUE, r, at), "loop")
            \/ Fail("IncorrectToken", it)

\* A loop of parse_ldf is entered with the cursor at the start of a text of at
\* most MaxTextLen - 2 characters: the brace-depth loops of the composite and
\* the Signal_groups blocks, the loops that skip to a "}" (an init_value_array)
\* and to a ";" (an attribute that is not supported), and the loops of a section
\* and of a list, which peek for the "}" and the ";" that end them.
InitLoops ==
    /\ data \in TextsOver({"{", "}", ";", "a", " ", "/"}, MaxTextLen - 2)
    /\ \E f \in { [state |-> "NodeComposition", form |-> "depth", until |-> "}"],
                  [state |-> "SignalGroups",    form |-> "depth", until |-> "}"],
                  [state |-> "Signal",          form |-> "next",  until |-> "}"],
                  [state |-> "NodeAttributes",  form |-> "next",  until |-> ";"],
                  [state |-> "Frame",           form |-> "peek",  until |-> "}"],
                  [state |-> "SporadicFrame",   form |-> "peek",  until |-> ";"] } :
          /\ state = f.state
          /\ cur = [kind |-> "loop", form |-> f.form, until |-> f.until, depth |-> 1]
    /\ pc = "loop"
    /\ index = 0
    /\ last = NoCall
    /\ peeked = NoPeek
    /\ result = "running"
    /\ bitrate = 0
    /\ commander = ""
    /\ responders = {}
    /\ subscribed_signals = EmptyMap
    /\ signals = EmptyMap
    /\ messages = EmptyMap
    /\ sporadic_frames = EmptyMap
    /\ event_frames = EmptyMap
    /\ schedule_tables = EmptyMap
    /\ extra = "NCF"
    /\ encodings = EmptyMap
    /\ item = NoItem
    /\ tokErr = "none"
    /\ matched = 0
    /\ items = 0
    /\ limit = 0
\* The loop runs on: nothing but its own condition or a return stops it.
SpecLoops == InitLoops /\ [][Skip \/ Section]_vars /\ WF_vars(Skip \/ Section)

----------------------------------------------------------------------------
(* Integer literals at their full width *)

\* Number of characters repeated in a literal.
MaxDigits == 20

RECURSIVE from_str_radix_u64(_, _, _)
\* u64::from_str_radix with the u64 held as four 16-bit limbs, least significant
\* first: each digit is a checked multiplication by the radix and a checked
\* addition, and a carry out of the fourth limb is the overflow error. <<>> is
\* the Err.
from_str_radix_u64(s, digits, acc) ==
    IF s = <<>> THEN acc
    ELSE LET d  == DigitVal(Head(s), digits)
             r  == Len(digits)
             t1 == acc[1] * r + d
             t2 == acc[2] * r + t1 \div U16
             t3 == acc[3] * r + t2 \div U16
             t4 == acc[4] * r + t3 \div U16
         IN IF d = NumErr \/ t4 >= U16 THEN <<>>
            ELSE from_str_radix_u64(Tail(s), digits,
                                    <<t1 % U16, t2 % U16, t3 % U16, t4 % U16>>)

\* parse_integer on a literal of any length: "0x" selects base 16, the empty
\* digit string is an Err.
parse_integer_u64(s) ==
    IF Len(s) >= 2 /\ s[1] = "0" /\ s[2] = "x"
    THEN IF Len(s) = 2 THEN <<>>
         ELSE from_str_radix_u64(SubSeq(s, 3, Len(s)), HexDigits, <<0, 0, 0, 0>>)
    ELSE IF s = <<>> THEN <<>>
    ELSE from_str_radix_u64(s, DecDigits, <<0, 0, 0, 0>>)

\* Mutant: a value that does not fit is stored as the largest one that does.
Narrow_Saturating(n, bits) ==
    IF bits = 8
    THEN <<IF n[1] >= 256 \/ n[2] + n[3] + n[4] > 0 THEN 255 ELSE n[1]>>
    ELSE IF bits = 16
    THEN <<IF n[2] + n[3] + n[4] > 0 THEN U16 - 1 ELSE n[1]>>
    ELSE IF n[3] + n[4] > 0 THEN <<U16 - 1, U16 - 1>> ELSE <<n[1], n[2]>>

\* The casts `as u8', `as u16' and `as u32' of a u64: the low bits are kept. The
\* result is held as its 16-bit limbs, least significant first.
Narrow(n, bits) ==
    IF bits = 8 THEN <<n[1] % 256>>
    ELSE IF bits = 16 THEN <<n[1]>>
    ELSE <<n[1], n[2]>>

\* `let field = parse_integer(tokens.next()?)? as uN' with the token in data,
\* and for the bit width of a signal the test that follows it.
Cast ==
    /\ Running /\ pc = "start" /\ cur.kind = "field"
    /\ LET n  == parse_integer_u64(data)
           v  == Narrow(n, cur.bits)
           it == [kind |-> "literal", field |-> cur.field, bits |-> cur.bits]
       IN IF n = <<>> THEN Fail("NumberParse", it)
          ELSE IF cur.field = "bit_width" /\ SignalWidthCheck(v[1]) # "ok"
          THEN Fail(SignalWidthCheck(v[1]), it)
          ELSE /\ cur' = [cur EXCEPT !.value = v]
               /\ pc' = "done"
               /\ item' = it
               /\ matched' = Follow(matched, it)
               /\ UNCHANGED <<state, peeked, result, bitrate, commander, responders,
                              subscribed_signals, signals, messages, sporadic_frames,
                              event_frames, schedule_tables, extra, encodings, tokErr,
                              items, limit, tokVars>>

\* The parse is about to read an integer field and the token is a literal: a
\* prefix followed by up to MaxDigits times one character (decimal and
\* hexadecimal numerals up to and beyond 64 bits, and malformed ones), or one
\* of the literals around the widths of the fields.
InitCasts ==
    /\ data \in { a \o [i \in 1..k |-> c] :
                    a \in {<<>>, <<"1">>, <<"0", "x">>, <<"0", "x", "1">>},
                    c \in {"0", "5", "9", "f"}, k \in 0..MaxDigits }
          \cup {<<"1","8","4","4","6","7","4","4","0","7","3","7","0","9","5","5","1","6","1","5">>,
           <<"1","8","4","4","6","7","4","4","0","7","3","7","0","9","5","5","1","6","1","6">>,
           <<"4","2","9","4","9","6","7","2","9","7">>,
           <<"6","5","6","0","1">>,
           <<"6","5","6","0","0">>,
           <<"2","5","6">>,
           <<"6","4","x">>,
           <<"0","x","1","g">>,
           <<"0","x">>}
    /\ \E f \in { [state |-> "Signal",              field |-> "bit_width",      bits |-> 16],
                  [state |-> "Frame",               field |-> "id",             bits |-> 32],
                  [state |-> "Frame",               field |-> "byte_width",     bits |-> 16],
                  [state |-> "Frame",               field |-> "signal_offset",  bits |-> 16],
                  [state |-> "EventTriggeredFrame", field |-> "id",             bits |-> 32],
                  [state |-> "NodeAttributes",      field |-> "configured_nad", bits |-> 8],
                  [state |-> "NodeAttributes",      field |-> "initial_nad",    bits |-> 8],
                  [state |-> "NodeAttributes",      field |-> "supplier_id",    bits |-> 16],
                  [state |-> "NodeAttributes",      field |-> "function_id",    bits |-> 16],
                  [state |-> "NodeAttributes",      field |-> "variant",        bits |-> 8],
                  [state |-> "NodeAttributes",      field |-> "frame_id",       bits |-> 16],
                  [state |-> "ScheduleTable",       field |-> "fields",         bits |-> 8],
                  [state |-> "ScheduleTable",       field |-> "d",              bits |-> 8],
                  [state |-> "ScheduleTable",       field |-> "pid",            bits |-> 8] } :
          /\ state = f.state
          /\ cur = [kind |-> "field", field |-> f.field, bits |-> f.bits, value |-> <<>>]
    /\ pc = "start"
    /\ index = 0
    /\ last = NoCall
    /\ peeked = NoPeek
    /\ result = "running"
    /\ bitrate = 0
    /\ commander = ""
    /\ responders = {}
    /\ subscribed_signals = EmptyMap
    /\ signals = EmptyMap
    /\ messages = EmptyMap
    /\ sporadic_frames = EmptyMap
    /\ event_frames = EmptyMap
    /\ schedule_tables = EmptyMap
    /\ extra = "NCF"
    /\ encodings = EmptyMap
    /\ item = NoItem
    /\ tokErr = "none"
    /\ matched = 0
    /\ items = 0
    /\ limit = 0
SpecCasts == InitCasts /\ [][Cast]_vars

----------------------------------------------------------------------------
(* C1: the order of the sections *)

Rank(s) == CHOOSE i \in 1..Len(StateOrder) : StateOrder[i] = s

OptionalStates == {"ChannelName", "NodeComposition", "DiagnosticSignal",
                   "SporadicFrame", "EventTriggeredFrame", "DiagnosticFrame",
                   "SignalGroups", "SignalEncodingTypes", "SignalRepresentation"}

\* A step enters an arm: the state changes, or control is back at an arm's opening.
Enters == state' # state \/ (pc' = "start" /\ pc # "start")

\* C1: the parse starts in Header; every step that enters a section enters one
\* that comes later in the fixed order than the section it leaves (so no section
\* is entered twice and none is gone back to), every section it jumps over is one
\* of the bracketed (optional) ones, and Ok is returned only in state Done, with
\* extra set to the LDF variant.
C1_SectionsInOrder ==
    /\ state = "Header"
    /\ [][Enters =>
            /\ Rank(state') > Rank(state)
            /\ \A i \in (Rank(state) + 1)..(Rank(state') - 1) :
                   StateOrder[i] \in OptionalStates]_vars
    /\ [](result = "Ok" => state = "Done" /\ extra = "LDF")

C1_Witness == result = "Ok" /\ state = "Done" /\ extra = "LDF" /\ DOMAIN messages # {}

----------------------------------------------------------------------------
(* C2 - C4: signals and frames *)

NoRepeat(seq) == \A i, j \in 1..Len(seq) : seq[i] = seq[j] => i = j

\* C2: a frame's (signal name, offset) entry whose name is not a key of the
\* signal table makes the parse return UnknownSignal, and in a returned Database
\* every name of every Message.signals is a key of Database.signals.
C2_UnknownSignalRejected ==
    /\ [][(/\ item'.kind = "frame_signal"
           /\ item'.offset # NumErr
           /\ item'.name \notin DOMAIN signals) => result' = "UnknownSignal"]_vars
    /\ [](result = "Ok" =>
            \A m \in DOMAIN messages : \A i \in 1..Len(messages[m].signals) :
                messages[m].signals[i] \in DOMAIN signals)

C2_Witness == result = "UnknownSignal" /\ item.kind = "frame_signal"

\* The signal has been given an offset by an entry of the frame being read or of
\* a frame already stored.
Placed(name) ==
    \/ cur.kind = "frame" /\ Contains(cur.signals, name)
    \/ \E m \in DOMAIN messages : Contains(messages[m].signals, name)

\* C3: an entry for a signal that an earlier entry has already given an offset
\* makes the parse return DuplicateSignal, whatever the two offsets are.
C3_SecondOffsetRejected ==
    [][(/\ item'.kind = "frame_signal"
        /\ item'.offset # NumErr
        /\ Placed(item'.name)) => result' = "DuplicateSignal"]_vars

\* C4: a signal declared with a width literal above 64 makes the parse return
\* SignalTooWide, and one declared with width 64 is stored.
C4_WidthOver64Rejected ==
    /\ (item.kind = "signal" /\ item.width > MAX_SIGNAL_WIDTH) => result = "SignalTooWide"
    /\ (item.kind = "signal" /\ item.width = MAX_SIGNAL_WIDTH) =>
           /\ result = "running"
           /\ item.name \in DOMAIN signals
           /\ signals[item.name].bit_width = MAX_SIGNAL_WIDTH

----------------------------------------------------------------------------
(* C5 - C9: sporadic and event-triggered groups *)

\* C5: in a returned Database every name of every sporadic_frames list, the
\* first included, is a key of messages whose sender is the commander.
C5_SporadicConstituentsValid ==
    result = "Ok" =>
        \A g \in DOMAIN sporadic_frames : \A i \in 1..Len(sporadic_frames[g]) :
            /\ sporadic_frames[g][i] \in DOMAIN messages
            /\ messages[sporadic_frames[g][i]].sender = commander

\* C6: reading, in a sporadic group, a constituent that the group has already
\* named makes the parse return DuplicateFrame.
C6_RepeatedConstituentRejected ==
    [][(/\ item'.kind = "sporadic_frame"
        /\ cur.kind = "sporadic"
        /\ Contains(cur.frames, item'.frame)) => result' = "DuplicateFrame"]_vars

\* The name is already a key of messages, sporadic_frames or event_frames.
Collides(name) ==
    name \in DOMAIN messages \cup DOMAIN sporadic_frames \cup DOMAIN event_frames

DifferentWidths(frames) ==
    \E i, j \in 1..Len(frames) :
        messages[frames[i]].byte_width # messages[frames[j]].byte_width

\* An event-triggered group with no constituent and a name not in use is stored
\* with an empty frame list.
EmptyGroupStored ==
    (item'.frames = <<>> /\ ~Collides(item'.name)) =>
        /\ result' = "running"
        /\ item'.name \in DOMAIN event_frames'
        /\ event_frames'[item'.name].frames = <<>>

\* C7 as stated: an event-triggered group whose constituents differ in byte_width
\* makes the parse return EventFrameDifferentLength (whatever its name), and the
\* empty group with a name not in use is stored.
C7_DifferentLengthRejected ==
    [][item'.kind = "event_group" =>
          /\ DifferentWidths(item'.frames) => result' = "EventFrameDifferentLength"
          /\ EmptyGroupStored]_vars

\* C7 as amended: an event-triggered group whose constituents differ in
\* byte_width and whose name is not in use makes the parse return
\* EventFrameDifferentLength; when the name is in use the parse returns
\* DuplicateFrame instead; the empty group with a name not in use is stored.
C7_DifferentLengthRejectedUnlessNameInUse ==
    [][item'.kind = "event_group" =>
          /\ (DifferentWidths(item'.frames) /\ ~Collides(item'.name)) =>
                 result' = "EventFrameDifferentLength"
          /\ (DifferentWidths(item'.frames) /\ Collides(item'.name)) =>
                 result' = "DuplicateFrame"
          /\ EmptyGroupStored]_vars

C7_Witness == result = "EventFrameDifferentLength" /\ item.kind = "event_group"

\* C8: a constituent of an event-triggered group that is no key of messages
\* makes the parse return NotUnconditionalFrame, one that the group has already
\* named makes it return DuplicateFrame, and in a returned Database every
\* event_frames list is free of repeats, holds keys of messages only, and its
\* messages have one byte_width.
C8_EventConstituentsValid ==
    /\ [][(item'.kind = "event_frame" /\ cur.kind = "event") =>
            /\ item'.frame \notin DOMAIN messages => result' = "NotUnconditionalFrame"
            /\ Contains(cur.frames, item'.frame) => result' = "DuplicateFrame"]_vars
    /\ [](result = "Ok" =>
            \A g \in DOMAIN event_frames :
                /\ NoRepeat(event_frames[g].frames)
                /\ \A i \in 1..Len(event_frames[g].frames) :
                       event_frames[g].frames[i] \in DOMAIN messages
                /\ ~DifferentWidths(event_frames[g].frames))

C8_Witness == result = "DuplicateFrame" /\ item.kind = "event_frame"

\* C9: a sporadic group whose name is a key of messages or of sporadic_frames,
\* and an event-triggered group whose name is a key of messages, sporadic_frames
\* or event_frames, makes the parse return DuplicateFrame when the group is
\* stored; in a returned Database the key sets of messages, sporadic_frames and
\* event_frames are pairwise disjoint.
C9_GroupNamesDistinct ==
    /\ [][(/\ item'.kind = "sporadic_group"
           /\ item'.name \in DOMAIN messages \cup DOMAIN sporadic_frames)
              => result' = "DuplicateFrame"]_vars
    /\ [][(item'.kind = "event_group" /\ Collides(item'.name))
              => result' = "DuplicateFrame"]_vars
    /\ [](result = "Ok" =>
            /\ DOMAIN messages \cap DOMAIN sporadic_frames = {}
            /\ DOMAIN messages \cap DOMAIN event_frames = {}
            /\ DOMAIN sporadic_frames \cap DOMAIN event_frames = {})

C9_Witness ==
    /\ result = "Ok"
    /\ DOMAIN messages # {}
    /\ DOMAIN sporadic_frames # {}
    /\ DOMAIN event_frames # {}

----------------------------------------------------------------------------
(* C10: tokenizer errors *)

\* C10: once the tokenizer has returned ExpectedComment, the parse returns
\* ExpectedComment and no Database.
C10_ExpectedCommentFatal ==
    (tokErr = "ExpectedComment" /\ result # "running") => result = "ExpectedComment"

----------------------------------------------------------------------------
(* C11 - C16: the tokenizer *)

\* Least position j >= i of text holding a newline, 0 when there is none.
NewlineFrom(text, i) ==
    IF \E j \in i..Len(text) : text[j] = "\n"
    THEN CHOOSE j \in i..Len(text) :
            text[j] = "\n" /\ \A k \in i..(j - 1) : text[k] # "\n"
    ELSE 0

IsTerminatorAt(text, j) == j + 1 <= Len(text) /\ text[j] = "*" /\ text[j + 1] = "/"

\* Least position j >= i of text where the pair '*/' starts, 0 when there is none.
TerminatorFrom(text, i) ==
    IF \E j \in i..Len(text) : IsTerminatorAt(text, j)
    THEN CHOOSE j \in i..Len(text) :
            IsTerminatorAt(text, j) /\ \A k \in i..(j - 1) : ~IsTerminatorAt(text, k)
    ELSE 0

RECURSIVE FirstTokenAt(_, _)
\* Where the first token of text at or after position i starts when whitespace
\* and comments are skipped, a block comment ending at the first '*/' after its
\* two opener characters and a line comment at the next newline: the position,
\* 0 when only whitespace and comments (complete or cut off) remain, -1 when a
\* '/' is followed by a character other than '*' and '/'.
FirstTokenAt(text, i) ==
    IF i > Len(text) THEN 0
    ELSE IF text[i] \in Whitespace THEN FirstTokenAt(text, i + 1)
    ELSE IF text[i] # "/" THEN i
    ELSE IF i = Len(text) THEN 0
    ELSE IF text[i + 1] = "/"
         THEN LET n == NewlineFrom(text, i + 2)
              IN IF n = 0 THEN 0 ELSE FirstTokenAt(text, n + 1)
    ELSE IF text[i + 1] = "*"
         THEN LET e == TerminatorFrom(text, i + 2)
              IN IF e = 0 THEN 0 ELSE FirstTokenAt(text, e + 2)
    ELSE -1

Called == last.op # "none"

\* C11: a call of next() or peek() skips the comments in front of the token, a
\* block comment up to the first '*/' after its opener and a line comment up to
\* the next newline: the token returned starts at the first character that is
\* neither whitespace nor inside a comment, and when only whitespace and
\* comments remain no token is returned.
C11_CommentsSkipped ==
    Called =>
        LET f == FirstTokenAt(data, last.from + 1) IN
        /\ f > 0 => last.r.res = "token" /\ last.r.start = f - 1
        /\ f = 0 => last.r.res = "ExpectedToken"

\* C12: a call that follows a peek() returns what that peek() returned; peek()
\* and a failing next() leave the cursor where it was; a successful next() moves
\* the cursor forward to the end of the token it returns, and the token is the
\* text between its start and that end.
C12_PeekThenNext ==
    [][/\ last.op = "peek" => last'.r = last.r
       /\ last'.op = "peek" => index' = index
       /\ (last'.op = "next" /\ last'.r.res # "token") => index' = index
       /\ (last'.op = "next" /\ last'.r.res = "token") =>
             /\ index' = last'.r.end
             /\ index' > index
             /\ last'.r.start >= index
             /\ last'.r.token = SubSeq(data, last'.r.start + 1, last'.r.end)]_vars

C12_Witness ==
    /\ last.op = "peek"
    /\ last.r.res = "token"
    /\ last.from > 0
    /\ index = last.from

\* Least position p >= i of text holding a character that is no whitespace, 0
\* when there is none.
FirstNonWhitespace(text, i) ==
    IF \E p \in i..Len(text) : text[p] \notin Whitespace
    THEN CHOOSE p \in i..Len(text) :
            text[p] \notin Whitespace /\ \A k \in i..(p - 1) : text[k] \in Whitespace
    ELSE 0

\* The '/' at position p opens a comment.
OpensComment(text, p) == p < Len(text) /\ text[p + 1] \in {"*", "/"}

\* The call found the character at position p, of the set ds, first after the
\* whitespace (p is not a '/' that opens a comment) and returned it as a token.
DelimiterReturned(ds) ==
    LET p == FirstNonWhitespace(data, last.from + 1) IN
    (p > 0 /\ data[p] \in ds /\ ~(data[p] = "/" /\ OpensComment(data, p))) =>
        /\ last.r.res = "token"
        /\ last.r.start = p - 1
        /\ last.r.token = <<data[p]>>

\* C13 as stated: when the first character that is not skipped is one of the
\* seven delimiters , ; : = { } / the token returned is that one character.
C13_SevenDelimiters == Called => DelimiterReturned(Delimiters)

\* C13 as amended: when the first character that is not skipped is one of the
\* six delimiters , ; : = { } the token returned is that one character, and every
\* token that starts with a delimiter is that one character; no token starts with
\* '/': a '/' that opens no comment is answered with ExpectedComment, or with
\* ExpectedToken when it is the last character of the text.
C13_SixDelimiters ==
    Called =>
        /\ DelimiterReturned(Delimiters \ {"/"})
        /\ (last.r.res = "token" /\ data[last.r.start + 1] \in Delimiters) =>
               /\ last.r.token = <<data[last.r.start + 1]>>
               /\ data[last.r.start + 1] # "/"
        /\ LET p == FirstNonWhitespace(data, last.from + 1) IN
           (p > 0 /\ data[p] = "/" /\ ~OpensComment(data, p)) =>
               last.r.res = IF p = Len(data) THEN "ExpectedToken" ELSE "ExpectedComment"

C13_Witness ==
    /\ last.op = "next"
    /\ last.r.token = <<"}">>
    /\ last.r.start > last.from

TokenReturned == Called /\ last.r.res = "token"

\* C14: a token whose first character is neither a quote nor a delimiter holds
\* no whitespace, no delimiter and no quote, and is followed by one of them or
\* by the end of the text.
C14_IdentifierRun ==
    (TokenReturned /\ data[last.r.start + 1] \notin Delimiters \cup {Quote}) =>
        /\ \A i \in 1..Len(last.r.token) :
               last.r.token[i] \notin Whitespace \cup Delimiters \cup {Quote}
        /\ \/ last.r.end = Len(data)
           \/ data[last.r.end + 1] \in Whitespace \cup Delimiters \cup {Quote}

\* Least position q >= i of text holding a quote, 0 when there is none.
QuoteFrom(text, i) ==
    IF \E q \in i..Len(text) : text[q] = Quote
    THEN CHOOSE q \in i..Len(text) :
            text[q] = Quote /\ \A k \in i..(q - 1) : text[k] # Quote
    ELSE 0

\* C15: when the first character after the whitespace is a quote, the token
\* returned starts there; a token that starts with a quote is the text up to and
\* including the next quote, whatever lies between, and the text up to its end
\* when no quote follows.
C15_QuotedToken ==
    Called =>
        /\ LET p == FirstNonWhitespace(data, last.from + 1) IN
           (p > 0 /\ data[p] = Quote) => last.r.res = "token" /\ last.r.start = p - 1
        /\ (last.r.res = "token" /\ data[last.r.start + 1] = Quote) =>
              LET q == QuoteFrom(data, last.r.start + 2) IN
              /\ last.r.end = IF q = 0 THEN Len(data) ELSE q
              /\ last.r.token = SubSeq(data, last.r.start + 1, last.r.end)

C15_Witness ==
    /\ last.op = "next"
    /\ last.r.token = <<Quote, "/", "*", Quote>>
    /\ last.r.end < Len(data)

\* C16: next() returns ExpectedToken exactly when only whitespace and comments,
\* complete or cut off by the end of the text, remain from the cursor, and a
\* token it returns is never empty.
C16_ExpectedTokenExactly ==
    (Called /\ last.op = "next") =>
        /\ last.r.res = "ExpectedToken" <=> FirstTokenAt(data, last.from + 1) = 0
        /\ last.r.res = "token" => last.r.token # <<>>

----------------------------------------------------------------------------
(* C17 - C20: tokens and names the parser checks *)

\* C17: the step that reads a version statement does not depend on the version
\* value: with the expected keyword, '=' and ';' around it the parse goes on to
\* the next section with its data untouched, whatever the value, and with another
\* token in place of one of the three it returns IncorrectToken, whatever the
\* value.
C17_VersionAdvisory ==
    [][item'.kind = "version" =>
          IF item'.kw = Intro(state) /\ item'.eq = "=" /\ item'.semi = ";"
          THEN /\ result' = "running"
               /\ state' = StateOrder[Rank(state) + 1]
               /\ pc' = "start"
               /\ peeked' = NoPeek
               /\ UNCHANGED <<dataVars, extra>>
          ELSE result' = "IncorrectToken"]_vars

C17_Witness ==
    /\ item.kind = "version"
    /\ item.value # "\"2.2\""
    /\ result = "running"
    /\ state = "Speed"

\* The introductory literals that may follow the section of state s.
AllowedAfter(s) ==
    CASE s = "Frame" -> {"Sporadic_frames", "Event_triggered_frames",
                         "Diagnostic_frames", "Node_attributes"}
      [] s = "SporadicFrame" -> {"Event_triggered_frames", "Diagnostic_frames",
                                 "Node_attributes"}
      [] s = "EventTriggeredFrame" -> {"Diagnostic_frames", "Node_attributes"}
      [] s = "ScheduleTable" -> {"Signal_groups", "Signal_encoding_types",
                                 "Signal_representation"}
      [] s = "SignalGroups" -> {"Signal_encoding_types", "Signal_representation"}
      [] s = "SignalEncodingTypes" -> {"Signal_representation"}
      [] OTHER -> {}

\* C18: a token that is not the introductory literal of a section allowed next,
\* met by the look-ahead after Schedule_tables, Signal_groups or
\* Signal_encoding_types, makes the parse return UnexpectedToken at once, and
\* one met by the look-ahead after Frames, Sporadic_frames or
\* Event_triggered_frames, and refused where the Node_attributes section is to
\* start, makes it return UnexpectedToken too.
C18_UnexpectedToken ==
    /\ [][(/\ state \in {"ScheduleTable", "SignalGroups", "SignalEncodingTypes"}
           /\ item'.kind = "lookahead"
           /\ item'.token \in PeekToks \ AllowedAfter(state))
              => result' = "UnexpectedToken"]_vars
    /\ []((result # "running" /\ state = "NodeAttributes" /\ item.kind = "intro")
              => result = "UnexpectedToken")

\* The schedule commands that hold a node name.
HoldsNode(command) == command.cmd \in NodeCommands \cup {"AssignFrameId"}

\* C19: a Node_attributes entry for a name that is no responder, and a schedule
\* command AssignNAD, DataDump, SaveConfiguration, AssignFrameIdRange or
\* AssignFrameId naming a node that is no responder, makes the parse return
\* UnknownNode; in a returned Database every node name held by a schedule
\* command is a responder.
C19_UnknownNode ==
    /\ [][(item'.kind = "node_attributes" /\ item'.name \notin responders)
              => result' = "UnknownNode"]_vars
    /\ [][(/\ item'.kind = "command"
           /\ HoldsNode(item'.command)
           /\ item'.command.node \notin responders) => result' = "UnknownNode"]_vars
    /\ [](result = "Ok" =>
            \A t \in DOMAIN schedule_tables : \A i \in 1..Len(schedule_tables[t]) :
                HoldsNode(schedule_tables[t][i][1]) =>
                    schedule_tables[t][i][1].node \in responders)

C19_Witness ==
    /\ result = "UnknownNode"
    /\ item.kind = "command"
    /\ item.command.cmd = "AssignFrameId"

\* C20: a schedule command word that is none of the nine keywords is stored as a
\* Frame command when it is a key of messages, sporadic_frames or event_frames,
\* and makes the parse return UnknownFrame when it is not; in a returned Database
\* every Frame command names a key of one of the three.
C20_FrameCommand ==
    /\ [][(item'.kind = "command" /\ item'.command.cmd = "Frame") =>
             IF Collides(item'.command.frame)
             THEN /\ result' \in {"running", "IncorrectToken", "NumberParse"}
                  /\ result' = "running" =>
                        /\ Len(cur'.table) = Len(cur.table) + 1
                        /\ cur'.table[Len(cur'.table)][1] = item'.command
             ELSE result' = "UnknownFrame"]_vars
    /\ [](result = "Ok" =>
            \A t \in DOMAIN schedule_tables : \A i \in 1..Len(schedule_tables[t]) :
                schedule_tables[t][i][1].cmd = "Frame" =>
                    Collides(schedule_tables[t][i][1].frame))

C20_Witness ==
    /\ result = "Ok"
    /\ \E t \in DOMAIN schedule_tables : \E i \in 1..Len(schedule_tables[t]) :
          /\ schedule_tables[t][i][1].cmd = "Frame"
          /\ schedule_tables[t][i][1].frame \in DOMAIN sporadic_frames

----------------------------------------------------------------------------
(* C22: the reference input *)

\* C22: parse_ldf on the reference input (speed 19.2 kbps, commander ECU1, the
\* responder ECU2, the signal `Sig1: 8, 0, ECU1, ECU2;', the frame
\* `Frame1: 1, ECU1, 1 { Sig1, 0; }', empty Node_attributes and Schedule_tables)
\* returns a Database with bitrate 19200, the one signal Sig1 of width 8 at
\* bit 0, the one message Frame1 (id 1, sender ECU1, byte width 1, signals
\* [Sig1]) and LDF data with commander ECU1 and the one responder ECU2, whose
\* subscribed_signals is [Sig1].
C22_ReferenceDatabase ==
    (result = "Ok" /\ matched = Len(ReferenceInput)) =>
        /\ bitrate = 19200 * Thousand
        /\ DOMAIN signals = {"Sig1"}
        /\ signals["Sig1"] = [signed |-> FALSE, little_endian |-> TRUE, bit_start |-> 0,
                             bit_width |-> 8, encodings |-> <<>>]
        /\ DOMAIN messages = {"Frame1"}
        /\ messages["Frame1"] = [sender |-> "ECU1", id |-> 1, byte_width |-> 1,
                                 signals |-> <<"Sig1">>, mux_signals |-> EmptyMap]
        /\ extra = "LDF"
        /\ commander = "ECU1"
        /\ responders = {"ECU2"}
        /\ DOMAIN subscribed_signals = {"ECU2"}
        /\ subscribed_signals["ECU2"] = <<"Sig1">>

C22_Witness == result = "Ok" /\ matched = Len(ReferenceInput)

----------------------------------------------------------------------------
(* C23: the width of a stored signal *)

\* C23: every Signal of a returned Database has a bit_width in 1..=64; a declared
\* width of 0, or one whose stored value is 0, never reaches the Database.
C23_WidthInRange ==
    result = "Ok" =>
        \A s \in DOMAIN signals :
            signals[s].bit_width >= 1 /\ signals[s].bit_width <= MAX_SIGNAL_WIDTH

----------------------------------------------------------------------------
(* C24: Signal_representation *)

\* C24: the SignalRepresentation arm is entered only with the token
\* Signal_representation peeked and not consumed, so its test for a further
\* token always fires: the step taken there returns UnexpectedToken, never
\* NotImplemented and never a Database.
C24_RepresentationRejected ==
    /\ [](state = "SignalRepresentation" =>
            /\ result \in {"running", "UnexpectedToken"}
            /\ Running => peeked = "Signal_representation")
    /\ [][(Running /\ state = "SignalRepresentation") => result' = "UnexpectedToken"]_vars

C24_Witness == state = "SignalRepresentation" /\ result = "UnexpectedToken"

----------------------------------------------------------------------------
(* C25: the encoding list of a block *)

IsPhysical(e) == e.word = "physical_value"

\* The Scalars of the physical ranges among the entries, in their order.
ScalarsOf(entries) ==
    LET sel == SelectSeq(entries, IsPhysical)
    IN [i \in 1..Len(sel) |-> [enc |-> "Scalar", raw_min |-> sel[i].value]]

LogicalsOf(entries) == {i \in 1..Len(entries) : entries[i].word = "logical_value"}

LabelledOf(entries) == {i \in LogicalsOf(entries) : entries[i].text # NoText}

\* The label -> value map of the labelled logical values, a repeated label
\* keeping the value of its last entry.
LastLabelled(entries) ==
    LET L == LabelledOf(entries)
    IN [t \in {entries[i].text : i \in L} |->
          entries[CHOOSE i \in L : /\ entries[i].text = t
                                    /\ \A j \in L : entries[j].text = t => j <= i].value]

\* The step that reads the `}' of a block.
BlockCloses ==
    /\ Running /\ state = "SignalEncodingTypes" /\ pc = "inner"
    /\ result' = "running" /\ pc' = "loop"

\* Every list holds Scalars only, but for its last element.
EnumOnlyLast ==
    \A n \in DOMAIN encodings :
        \A i \in 1..Len(encodings[n]) :
            encodings[n][i].enc = "Enum" => i = Len(encodings[n])

\* C25 (as stated): the list of a block holds its physical ranges as Scalars in
\* source order, followed by exactly one Enum holding all the logical values of
\* the block if the block has a logical_value entry, and by no Enum if it has
\* none; no list holds an Enum anywhere but at its end.
C25_EnumIffLogicalValue ==
    /\ []EnumOnlyLast
    /\ [][BlockCloses =>
            LET list == encodings'[cur.name]
                n    == Len(ScalarsOf(cur.entries))
            IN IF LogicalsOf(cur.entries) = {}
               THEN list = ScalarsOf(cur.entries)
               ELSE /\ Len(list) = n + 1
                    /\ SubSeq(list, 1, n) = ScalarsOf(cur.entries)
                    /\ list[n + 1].enc = "Enum"
                    /\ \A i \in LogicalsOf(cur.entries) :
                          \E t \in DOMAIN list[n + 1].map :
                              list[n + 1].map[t] = cur.entries[i].value]_vars

\* C25 (amended): the list of a block holds its physical ranges as Scalars in
\* source order, followed by exactly one Enum if the block has a logical_value
\* entry with a text, and by no Enum otherwise; the Enum maps every text to the
\* value of the last entry with that text; no list holds an Enum anywhere but at
\* its end.
C25_EnumIffLabelledValue ==
    /\ []EnumOnlyLast
    /\ [][BlockCloses =>
            encodings'[cur.name] =
                ScalarsOf(cur.entries) \o
                (IF LabelledOf(cur.entries) = {} THEN <<>>
                 ELSE <<[enc |-> "Enum", name |-> cur.name,
                         map |-> LastLabelled(cur.entries)]>>)]_vars

\* A block of a physical range and a labelled logical value has been closed.
C25_Witness ==
    /\ Running /\ state = "SignalEncodingTypes" /\ pc = "loop"
    /\ \E n \in DOMAIN encodings :
          /\ Len(encodings[n]) = 2
          /\ encodings[n][1].enc = "Scalar"
          /\ encodings[n][2].enc = "Enum"

----------------------------------------------------------------------------
(* C26: a repeated encoding name *)

\* C26: a block of Signal_encoding_types whose name is the name of an earlier
\* block of the parse makes parse_ldf return DuplicateEncoding when the name is
\* read, before any content of the block; DuplicateEncoding is one of the
\* errors of the taxonomy, as is every error the caller receives.
C26_DuplicateEncoding ==
    /\ [][(Running /\ item'.kind = "encoding" /\ item'.name \in DOMAIN encodings)
            => /\ result' = "DuplicateEncoding"
               /\ state = "SignalEncodingTypes" /\ pc = "loop"]_vars
    /\ [](result \in {"running", "Ok"} \cup Error)

----------------------------------------------------------------------------
(* C27: subscribed_signals *)

\* Number of times x is listed in seq.
Listings(seq, x) == Cardinality({i \in 1..Len(seq) : seq[i] = x})

\* A declaration of the Signals section has been read and accepted.
Declared ==
    Running /\ state = "Signal" /\ item'.kind = "signal" /\ result' = "running"

\* C27: every accepted declaration appends the signal's name to the
\* subscribed_signals of each responder it lists, once per listing, and changes
\* no other list; a subscriber that is not a responder is skipped without
\* error; the publisher is read but never checked; no step after the Signals
\* section changes the lists.
C27_SubscribedSignals ==
    /\ [][Declared =>
            /\ DOMAIN subscribed_signals' = responders
            /\ \A r \in responders :
                  subscribed_signals'[r] =
                      subscribed_signals[r] \o
                      [i \in 1..Listings(item'.subscribers, r) |-> item'.name]]_vars
    /\ [][(Running /\ item'.kind = "signal")
            => result' \in {"running", "NumberParse", "SignalTooWide"}]_vars
    /\ [][(Running /\ result' = "running" /\ item'.kind \notin {"signal", "nodes"})
            => subscribed_signals' = subscribed_signals]_vars

\* The second declaration names the commander, which is skipped, and a publisher
\* that is no node; the first one has listed the responder twice.
C27_Witness ==
    /\ Running /\ item.kind = "signal"
    /\ responders = {"ECU2"}
    /\ item.subscribers = <<"ECU1", "ECU2">>
    /\ item.publisher = "Nobody"
    /\ Len(subscribed_signals["ECU2"]) = 3

----------------------------------------------------------------------------
(* C28: the entries of a schedule table *)

\* The value of the delay literals that are numbers, in thousandths.
DelayOf(lit) ==
    CASE lit = <<"1","0">>     -> 10 * Thousand
      [] lit = <<"2",".","5">> -> 2 * Thousand + 500
      [] OTHER                 -> NumErr

\* The command of an entry has been read and accepted.
CommandAccepted ==
    /\ Running /\ state = "ScheduleTable" /\ pc = "inner"
    /\ item'.kind = "command"
    /\ result' \notin {"UnknownNode", "UnknownFrame"}

\* The step that reads the `}' of a table.
TableCloses ==
    /\ Running /\ state = "ScheduleTable" /\ pc = "inner"
    /\ result' = "running" /\ pc' = "loop"

\* C28: an entry is pushed on its table, after the entries read before it, as
\* the pair of its command and its delay, and only when its suffix
\* `delay <value> ms ;' has been read; an entry with another token in the place
\* of delay, ms or ; fails with IncorrectToken, one with a malformed value with
\* NumberParse; the table stored under its name is the list of these pairs.
C28_EntriesInOrder ==
    /\ [][CommandAccepted =>
            LET sfx == item'.suffix
            IN IF sfx[1] # "delay" THEN result' = "IncorrectToken"
               ELSE IF DelayOf(sfx[2]) = NumErr THEN result' = "NumberParse"
               ELSE IF sfx[3] # "ms" \/ sfx[4] # ";" THEN result' = "IncorrectToken"
               ELSE /\ result' = "running"
                    /\ cur'.table = Append(cur.table, <<item'.command, DelayOf(sfx[2])>>)]_vars
    /\ [][TableCloses => /\ cur.name \in DOMAIN schedule_tables'
                         /\ schedule_tables'[cur.name] = cur.table]_vars
    /\ [][(Running /\ result' = "running" /\ state = "ScheduleTable" /\ pc = "inner"
             /\ item'.kind # "command") => TableCloses]_vars

\* A returned table of two entries with different commands and delays.
C28_Witness ==
    /\ result = "Ok"
    /\ \E t \in DOMAIN schedule_tables :
          /\ Len(schedule_tables[t]) = 2
          /\ schedule_tables[t][1][1] # schedule_tables[t][2][1]
          /\ schedule_tables[t][1][2] = 2 * Thousand + 500
          /\ schedule_tables[t][2][2] = 10 * Thousand

----------------------------------------------------------------------------
(* C29: placement of the signals *)

\* Number of places at which the signal s is listed by the messages.
Places(s) ==
    Cardinality({<<m, i>> \in (DOMAIN messages) \X (1..MaxFrameItems + 1) :
                    i <= Len(messages[m].signals) /\ messages[m].signals[i] = s})

\* C29: in a returned Database a signal has an assigned bit_start exactly when
\* it is listed by one message, once; no signal is listed by two messages or
\* twice by one.
C29_AssignedIffPlacedOnce ==
    result = "Ok" =>
        \A s \in SigNames :
            /\ Places(s) <= 1
            /\ s \in DOMAIN signals =>
                  (signals[s].bit_start # BIT_START_INVALID <=> Places(s) = 1)

----------------------------------------------------------------------------
(* C30: termination *)

RECURSIVE TokensFrom(_, _)
\* The number of tokens next() returns from the cursor idx on, one call after
\* the other, before it returns an Error.
TokensFrom(text, idx) ==
    LET r == parse(text, idx) IN
    IF r.res = "token" /\ r.end > idx THEN 1 + TokensFrom(text, r.end) ELSE 0

\* An iteration that has gone through without an Error.
Iterated == items' = items + 1

\* C30: every loop of the parser ends, with the loop left or with an Error,
\* after at most as many iterations as the text has tokens: a next() that
\* succeeds returns a token that is not empty and moves the cursor forward to
\* the end of that token, every iteration that does not return an Error leaves
\* fewer tokens in front of the cursor than it found, once no token is left the
\* next iteration returns the Error of the tokenizer, and so the number of
\* iterations stays within the number of tokens read and the loop is
\* eventually over.
C30_Terminates ==
    /\ [][Iterated => /\ last'.op = "next" /\ last'.r.res = "token"
                      /\ last'.r.token # <<>>
                      /\ last'.from >= index
                      /\ index' = last'.r.end
                      /\ index' > last'.from]_vars
    /\ [][Iterated => TokensFrom(data, index') < TokensFrom(data, index)]_vars
    /\ [][Iterated \/ result' \in Error]_vars
    /\ [][TokensFrom(data, index) = 0 => result' \in LexErrs]_vars
    /\ [](items + TokensFrom(data, index) <= TokensFrom(data, 0))
    /\ <>(~Running \/ pc = "after")

\* A brace-depth loop has read a nested block to the "}" that closes it.
C30_Witness ==
    /\ Running /\ pc = "after" /\ cur.form = "depth"
    /\ items >= 3
    /\ \E i \in 1..index : data[i] = "{"

----------------------------------------------------------------------------
(* C31: the diagnostic sections *)

\* The step reads a Diagnostic_signals or a Diagnostic_frames block.
DiagnosticRead == item'.kind \in {"diagnostic_signals", "diagnostic_frames"}

\* C31: the Diagnostic_signals and the Diagnostic_frames arms compare their
\* block with the literal template and store nothing. A block that is the
\* template leaves every signal, every message and all other data as they
\* were and the parse goes on; a block with another token in the place of a
\* literal returns IncorrectToken. A name enters the signals only when a
\* declaration of the Signals section is read and the messages only when a
\* frame of the Frames section is closed, so a signal or a message with a name
\* of a template is there only if it was declared.
C31_DiagnosticsMatchOnly ==
    /\ [][DiagnosticRead =>
            IF item'.at = 0
            THEN /\ Running'
                 /\ UNCHANGED <<bitrate, commander, responders, subscribed_signals,
                                signals, messages, sporadic_frames, event_frames,
                                schedule_tables, encodings, extra>>
            ELSE result' = "IncorrectToken"]_vars
    /\ [][Running' /\ DOMAIN signals' # DOMAIN signals
            => state = "Signal" /\ item'.kind = "signal"]_vars
    /\ [][Running' /\ DOMAIN messages' # DOMAIN messages
            => state = "Frame" /\ item'.kind = "close"]_vars

\* The Diagnostic_frames template has been read after a frame of another name.
C31_Witness ==
    /\ Running /\ item.kind = "diagnostic_frames" /\ item.at = 0
    /\ DOMAIN messages # {}
    /\ "MasterReq" \notin DOMAIN messages

----------------------------------------------------------------------------
(* C32: nothing is attached to a signal or a message *)

\* C32: at every point of the parse, and so in the Database returned, every
\* signal is unsigned and little-endian and has no encodings, and every message
\* has no mux_signals: the encodings read from Signal_encoding_types stay in
\* the table of the parser, whatever sections were read.
C32_NothingAttached ==
    /\ \A n \in DOMAIN signals :
          /\ ~signals[n].signed
          /\ signals[n].little_endian
          /\ signals[n].encodings = <<>>
    /\ \A m \in DOMAIN messages : DOMAIN messages[m].mux_signals = {}

\* A Database is returned with a signal, after an encoding was collected.
C32_Witness ==
    /\ result = "Ok"
    /\ DOMAIN signals # {}
    /\ \E e \in DOMAIN encodings : encodings[e] # <<>>

----------------------------------------------------------------------------
(* C33: integer literals wider than their field *)

IsHex(s) == Len(s) >= 2 /\ s[1] = "0" /\ s[2] = "x"

\* The digits of the literal, and the digits of its base.
DigitsOf(s) == IF IsHex(s) THEN SubSeq(s, 3, Len(s)) ELSE s
BaseOf(s) == IF IsHex(s) THEN HexDigits ELSE DecDigits

\* The literal is a numeral: at least one digit, and digits of its base only.
WellFormed(s) ==
    /\ DigitsOf(s) # <<>>
    /\ \A i \in 1..Len(DigitsOf(s)) : DigitVal(DigitsOf(s)[i], BaseOf(s)) # NumErr

RECURSIVE StripZeros(_)
StripZeros(s) == IF s # <<>> /\ Head(s) = "0" THEN StripZeros(Tail(s)) ELSE s

\* The largest value of bits bits, in decimal and in hexadecimal.
LargestOf(s, bits) ==
    IF IsHex(s) THEN [i \in 1..(bits \div 4) |-> "f"]
    ELSE CASE bits = 8  -> <<"2","5","5">>
           [] bits = 16 -> <<"6","5","5","3","5">>
           [] bits = 32 -> <<"4","2","9","4","9","6","7","2","9","5">>
           [] bits = 64 -> <<"1","8","4","4","6","7","4","4","0","7","3","7","0","9","5","5","1","6","1","5">>

\* The numeral a is at most the numeral b of the same base, both without
\* leading zeros: it is shorter, or as long and not behind it at the first digit
\* where they differ.
AtMost(a, b, base) ==
    \/ Len(a) < Len(b)
    \/ /\ Len(a) = Len(b)
       /\ \A i \in 1..Len(a) :
             (\A j \in 1..(i - 1) : a[j] = b[j])
                 => DigitVal(a[i], base) <= DigitVal(b[i], base)

\* The value of the numeral fits in bits bits.
Fits(s, bits) == AtMost(StripZeros(DigitsOf(s)), LargestOf(s, bits), BaseOf(s))

RECURSIVE ModuloOf(_, _, _, _)
\* The value of the digits s modulo m (m at most 2^16), given acc for the
\* digits before them.
ModuloOf(s, base, m, acc) ==
    IF s = <<>> THEN acc
    ELSE ModuloOf(Tail(s), base, m, (acc * Len(base) + DigitVal(Head(s), base)) % m)

RECURSIVE HighOf(_, _, _, _)
\* Bits 16 to 31 of the value of the digits s, given hi and lo for bits 16 to
\* 31 and 0 to 15 of the digits before them.
HighOf(s, base, hi, lo) ==
    IF s = <<>> THEN hi
    ELSE LET t == lo * Len(base) + DigitVal(Head(s), base)
         IN HighOf(Tail(s), base, (hi * Len(base) + t \div U16) % U16, t % U16)

\* The value of the literal modulo 2^bits, as 16-bit limbs.
Wrapped(s, bits) ==
    IF bits = 8 THEN <<ModuloOf(DigitsOf(s), BaseOf(s), 256, 0)>>
    ELSE IF bits = 16 THEN <<ModuloOf(DigitsOf(s), BaseOf(s), U16, 0)>>
    ELSE <<ModuloOf(DigitsOf(s), BaseOf(s), U16, 0), HighOf(DigitsOf(s), BaseOf(s), 0, 0)>>

\* The step reads the literal of an integer field.
LiteralRead == item'.kind = "literal"

\* C33 as stated: a numeral that fits in 64 bits and not in its field is
\* never rejected, the field holds its value modulo 2^w; NumberParse is
\* returned for the literals that are no numeral or do not fit in 64 bits, and
\* for no other.
C33_NeverRejected ==
    /\ [][LiteralRead /\ WellFormed(data) /\ Fits(data, 64) /\ ~Fits(data, cur.bits)
            => /\ Running'
               /\ cur'.value = Wrapped(data, cur.bits)]_vars
    /\ [][LiteralRead =>
            (result' = "NumberParse" <=> ~(WellFormed(data) /\ Fits(data, 64)))]_vars

\* C33: a numeral that fits in 64 bits is never rejected for its size: the
\* value of the field is its value modulo 2^w, and that value is stored, except
\* for the bit width of a signal, where a value modulo 2^16 above 64 returns
\* SignalTooWide. NumberParse is returned for the literals that are no numeral
\* or do not fit in 64 bits, and for no other.
C33_WrappedThenTested ==
    /\ [][LiteralRead /\ WellFormed(data) /\ Fits(data, 64)
            => IF cur.field = "bit_width" /\ Wrapped(data, 16)[1] > MAX_SIGNAL_WIDTH
               THEN result' = "SignalTooWide"
               ELSE /\ Running'
                    /\ cur'.value = Wrapped(data, cur.bits)]_vars
    /\ [][LiteralRead =>
            (result' = "NumberParse" <=> ~(WellFormed(data) /\ Fits(data, 64)))]_vars

\* A frame id of 2^32 + 1 has been stored as 1.
C33_Witness ==
    /\ Running /\ pc = "done" /\ cur.kind = "field"
    /\ cur.field = "id"
    /\ WellFormed(data) /\ Fits(data, 64) /\ ~Fits(data, 32)
    /\ cur.value = <<1, 0>>

====
